---- MODULE Spec2Model ----
(***************************************************************************)
(* A model of treadmill's Zookeeper-to-filesystem synchronisation engine   *)
(* (treadmill/zksync.py: write_data and class Zk2Fs), of the coordination  *)
(* client's watch recipes as the engine uses them, and of the remote       *)
(* namespace the engine mirrors; and of the init daemon                    *)
(* (treadmill/sproc/init.py) that registers the node and shuts it down.    *)
(*                                                                         *)
(* The specifications share the variables below:                         *)
(*   Spec      the engine, the client's callback queue and the remote side *)
(*   SpecDiff  the loop of Zk2Fs._filter_children_actions, one iteration   *)
(*             per step, over every pair of sorted name lists              *)
(*   SpecWrite write_data, one statement per step, with a failure possible *)
(*             at every statement                                          *)
(*   SpecSession the engine with the default callbacks and no local fault, *)
(*             every session transition                                    *)
(*   SpecThreads the caller's thread and the client's callback thread, each *)
(*             entering and leaving the engine in steps of its own         *)
(*   SpecPred  the engine with one choice of sync_children arguments for   *)
(*             the whole run, the remote side changing                     *)
(*   SpecData  the engine on nodes whose data may be empty or none         *)
(*   SpecCancel the engine with watch_data set, its children deleted and   *)
(*             created again, the cancelled data watchers followed         *)
(*   SpecWriteFault write_data next to snapshot sync_data calls that a     *)
(*             local write failure may hit                                 *)
(*   SpecIdem  one sync_children call repeated with the same arguments on  *)
(*             an unchanging remote side                                   *)
(*   SpecNoNode the engine with need_watch_predicate saying no, on a path  *)
(*             that may not exist remotely                                 *)
(*   SpecInit  the init daemon from its blackout check to its end, with    *)
(*             the session, the presence node and the watchdogs changing   *)
(***************************************************************************)
EXTENDS Integers, Sequences, FiniteSets, TLC

VARIABLES
    rnodes,     \* remote namespace: child name -> node (exists, data, mzxid)
    clock,      \* remote transaction counter (zxid / last_modified source)
    queue,      \* the client's FIFO queue of watch events awaiting dispatch
    session,    \* the client's session state
    eng,        \* the process: Zk2Fs fields, the mirror, the client's watchers
    last,       \* what the last step did (operation, result, logs)
    nsync,      \* caller-context sync calls made so far
    nfaults,    \* local write failures injected so far
    diff,       \* SpecDiff: the locals of _filter_children_actions
    wr,         \* SpecWrite: the locals of write_data and the directory
    call,       \* SpecIdem: the arguments of the caller's repeated call
    threads,    \* SpecThreads: what the caller's thread and the client's
                \* callback thread are in
    cancelled,  \* SpecCancel: the live data watchers whose path was taken
                \* out of the watch set since they were registered
    rparent,    \* SpecNoNode: the synchronised path exists remotely
    initd       \* SpecInit: the init daemon (sproc/init.py), its client and
                \* what it acts on: the node's presence, server and blackout
                \* nodes, the container network and the containers

vars == <<rnodes, clock, queue, session, eng, last, nsync, nfaults, diff, wr, call, threads, cancelled, rparent, initd>>

----------------------------------------------------------------------------
(* Bounds of the model *)

MaxRemoteOps == 2
MaxSyncCalls == 2
MaxFaults == 1
MaxLen == 3

----------------------------------------------------------------------------
(* Values *)

\* Python's None for data, and for stat and event
NoneData == "<None>"
NoEvent == "<None>"

\* exceptions
NoExc == "none"

\* the wall-clock time of a local write, unlike every remote last_modified
Now == -2

\* the partial content of a file whose write was cut short
Partial == "<partial>"

\* Data blobs; "" is the empty blob of an existing node
Data == {"", "A", "B"}

\* the blobs other clients write in Spec
RemoteData == {"A", "B"}

\* Child names under the synchronised path, and the synchronised path
Children == {"host1", "host2"}
ZkPath == <<"servers">>
FsRoot == "fsroot"

\* Names the filesystem can hold that start with a dot: glob's '*' skips them
TmpNames == <<".tmp0", ".tmp1", ".tmp2", ".tmp3">>
DotNames == {".done", ".modified"} \cup {TmpNames[i] : i \in 1..Len(TmpNames)}

\* Names used by the diff of two listings
DiffNames == {"a", "b", "c", "d", "e"}

\* Python compares names by code point; this is that order on the names used
NameOrder == <<".done", ".modified", ".tmp0", ".tmp1", ".tmp2", ".tmp3", "a", "b", "c", "d", "e", "host1", "host2">>

Rank(n) == CHOOSE i \in 1..Len(NameOrder) : NameOrder[i] = n

NameLt(a, b) == Rank(a) < Rank(b)

\* sorted(names): the names of a duplicate-free listing in ascending order
RECURSIVE Sorted(_)
Sorted(S) ==
    IF S = {} THEN <<>>
    ELSE LET m == CHOOSE x \in S : \A y \in S : ~NameLt(y, x)
         IN <<m>> \o Sorted(S \ {m})

SeqSet(q) == {q[i] : i \in 1..Len(q)}

\* F applied to the value of v, v evaluated once
Bind(v, F(_)) == CHOOSE r \in {F(x) : x \in {v}} : TRUE

----------------------------------------------------------------------------
(* Zk2Fs._filter_children_actions *)

DiffInit(sorted_children, sorted_filenames) ==
    [sorted_children |-> sorted_children, sorted_filenames |-> sorted_filenames,
     child_idx |-> 0, file_idx |-> 0,
     add |-> <<>>, remove |-> <<>>, common |-> <<>>, iters |-> 0]

\* the while condition
DiffRunning(d) ==
    d.child_idx < Len(d.sorted_children) \/ d.file_idx < Len(d.sorted_filenames)

\* one iteration of the while loop (indices are Python's, from 0), the names
\* compared by Less
FilterStepWith(d, Less(_, _)) ==
    LET has_child == d.child_idx < Len(d.sorted_children)
        has_file == d.file_idx < Len(d.sorted_filenames)
        child_name == d.sorted_children[d.child_idx + 1]
        file_name == d.sorted_filenames[d.file_idx + 1]
        n == [d EXCEPT !.iters = @ + 1]
    IN IF ~has_child
         THEN [n EXCEPT !.remove = Append(@, file_name), !.file_idx = @ + 1]
       ELSE IF ~has_file
         THEN [n EXCEPT !.add = Append(@, child_name), !.child_idx = @ + 1]
       ELSE IF child_name = file_name
         THEN [n EXCEPT !.common = Append(@, child_name),
                        !.child_idx = @ + 1, !.file_idx = @ + 1]
       ELSE IF Less(child_name, file_name)
         THEN [n EXCEPT !.add = Append(@, child_name), !.child_idx = @ + 1]
       ELSE [n EXCEPT !.remove = Append(@, file_name), !.file_idx = @ + 1]

\* a variant: the comparison the wrong way round
FilterStepReversed(d) == FilterStepWith(d, LAMBDA a, b : NameLt(b, a))

FilterStep(d) == FilterStepWith(d, NameLt)

RECURSIVE FilterLoop(_)
FilterLoop(d) == IF DiffRunning(d) THEN FilterLoop(FilterStep(d)) ELSE d

\* the whole call: the three lists it fills
FilterChildrenActions(sorted_children, sorted_filenames) ==
    FilterLoop(DiffInit(sorted_children, sorted_filenames))

----------------------------------------------------------------------------
(* The local filesystem: files by path (a tuple of components), directories *)

\* Zk2Fs.fpath: os.path.join(fsroot, zkpath.lstrip('/'))
fpath(zkpath) == <<FsRoot>> \o zkpath

\* z.join_zookeeper_path(zkpath, node)
join_zookeeper_path(zkpath, node) == Append(zkpath, node)

dirname(p) == SubSeq(p, 1, Len(p) - 1)
basename(p) == p[Len(p)]

ModifiedFile == <<FsRoot, ".modified">>
DoneFile(dir) == Append(dir, ".done")

FilePaths ==
    {Append(fpath(ZkPath), n) : n \in Children \cup (DotNames \ {".modified"})}
        \cup {ModifiedFile}

NoFile == [exists |-> FALSE, data |-> "", mtime |-> 0, mode |-> 0]
File(data, mtime, mode) == [exists |-> TRUE, data |-> data, mtime |-> mtime, mode |-> mode]

EmptyFs == [files |-> [p \in FilePaths |-> NoFile], dirs |-> {<<FsRoot>>}]

\* a listing that does not skip the names starting with a dot
GlobStarAll(fs, dir) ==
    {basename(p) : p \in {q \in FilePaths : /\ dirname(q) = dir
                                            /\ fs.files[q].exists}}

\* glob.glob(os.path.join(fpath, '*')) mapped through os.path.basename:
\* the names in the directory that do not start with a dot
GlobStar(fs, dir) ==
    {basename(p) : p \in {q \in FilePaths : /\ dirname(q) = dir
                                            /\ fs.files[q].exists
                                            /\ basename(q) \notin DotNames}}

\* fs.mkdir_safe
mkdir_safe(fs, dir) == [fs EXCEPT !.dirs = @ \cup {dir}]

\* fs.rm_safe: unlink, an absent file is not an error
rm_safe(fs, p) == [fs EXCEPT !.files[p] = NoFile]

\* utils.touch followed by os.utime(now): the file exists, stamped now
touch(fs, p) ==
    [fs EXCEPT !.files[p] =
        IF @.exists THEN [@ EXCEPT !.mtime = Now] ELSE File("", Now, 420)]

----------------------------------------------------------------------------
(* write_data(fpath, data, modified, raise_err), statement by statement *)

\* tempfile picks a name no file in the directory has
FreshTmp(fs, dir) ==
    LET free == {i \in 1..Len(TmpNames) : ~fs.files[Append(dir, TmpNames[i])].exists}
    IN Append(dir, TmpNames[CHOOSE i \in free : \A j \in free : i <= j])

WriteSteps == {"mktemp", "write", "fchmod", "utime", "rename"}

WriteInit(fs, path, data, modified, raise_err) ==
    [pc |-> "mktemp", fpath |-> path, data |-> data, modified |-> modified,
     raise_err |-> raise_err, temp |-> <<>>, exc |-> NoExc, fs |-> fs]

WriteRunning(w) == w.pc \in WriteSteps

\* Python's truth value of the data: None and the empty blob are false
Truthy(data) == data # NoneData /\ data # ""

\* the except clause without the re-raise
RenameFailedSwallowed(w) == [w EXCEPT !.pc = "swallowed"]

\* except OSError around os.rename: log, and re-raise if raise_err
RenameFailed(w) ==
    IF w.raise_err THEN [w EXCEPT !.pc = "raised", !.exc = "OSError"]
    ELSE [w EXCEPT !.pc = "swallowed"]

\* one statement; `fail` says the statement's system call fails; t is the
\* file the data is written to
WriteStepWith(w, fail, t) ==
    CASE w.pc = "mktemp" ->
           IF fail \/ dirname(w.fpath) \notin w.fs.dirs
             THEN [w EXCEPT !.pc = "raised", !.exc = "OSError"]
           ELSE [w EXCEPT !.pc = "write", !.temp = t,
                          !.fs.files[t] = File("", Now, 384)]
      [] w.pc = "write" ->
           IF ~Truthy(w.data) THEN [w EXCEPT !.pc = "fchmod"]
           ELSE IF fail
             THEN [w EXCEPT !.pc = "raised", !.exc = "OSError",
                            !.fs.files[w.temp].data = Partial]
           ELSE [w EXCEPT !.pc = "fchmod", !.fs.files[w.temp].data = w.data]
      [] w.pc = "fchmod" ->
           IF fail THEN [w EXCEPT !.pc = "raised", !.exc = "OSError"]
           ELSE [w EXCEPT !.pc = "utime", !.fs.files[w.temp].mode = 420]
      [] w.pc = "utime" ->
           IF fail THEN [w EXCEPT !.pc = "raised", !.exc = "OSError"]
           ELSE [w EXCEPT !.pc = "rename", !.fs.files[w.temp].mtime = w.modified]
      [] w.pc = "rename" ->
           IF fail THEN RenameFailed(w)
           ELSE [w EXCEPT !.pc = "done",
                          !.fs.files[w.fpath] = w.fs.files[w.temp],
                          !.fs.files[w.temp] = NoFile]
      [] OTHER -> w

\* a variant: the data written to the destination itself
WriteStepInPlace(w, fail) == WriteStepWith(w, fail, w.fpath)

WriteStep(w, fail) == WriteStepWith(w, fail, FreshTmp(w.fs, dirname(w.fpath)))

\* the whole call, the statement `failat` failing ("none": no failure)
RECURSIVE WriteLoop(_, _)
WriteLoop(w, failat) ==
    IF WriteRunning(w) THEN WriteLoop(WriteStep(w, w.pc = failat), failat) ELSE w

write_data(fs, path, data, modified, raise_err, failat) ==
    WriteLoop(WriteInit(fs, path, data, modified, raise_err), failat)

----------------------------------------------------------------------------
(* The remote namespace, as the coordination client reads it *)

ChildPaths == {join_zookeeper_path(ZkPath, c) : c \in Children}

NoNode == [exists |-> FALSE, data |-> NoneData, mzxid |-> 0, last_modified |-> 0]
Node(data, zxid) == [exists |-> TRUE, data |-> data, mzxid |-> zxid, last_modified |-> zxid]

\* a stat, or Python's None where the node does not exist
StatNone == [isnone |-> TRUE, mzxid |-> 0, last_modified |-> 0]
StatOf(node) ==
    IF node.exists
      THEN [isnone |-> FALSE, mzxid |-> node.mzxid, last_modified |-> node.last_modified]
    ELSE StatNone

\* zkclient.get_children: the names of the existing children, in no order
get_children(zkpath) ==
    {basename(p) : p \in {q \in ChildPaths : dirname(q) = zkpath /\ rnodes[q].exists}}

\* the version a DataWatch remembers: the node's mzxid, None without a node
NoVersion == -1
VersionOf(stat) == IF stat.isnone THEN NoVersion ELSE stat.mzxid

----------------------------------------------------------------------------
(* The process state a handler runs on: the fields of Zk2Fs, the mirror,   *)
(* the client's watchers, and the handler's own outcome and logs           *)

\* __init__ without the add_listener call
EngineInitNoListener(fs) ==
    [fs |-> fs, watches |-> {}, processed_once |-> {}, ready |-> FALSE,
     listeners |-> {}, alive |-> TRUE, dws |-> <<>>, cws |-> <<>>]

\* Zk2Fs.__init__ (the client's listeners are the client's state)
EngineInit(fs) ==
    [fs |-> fs, watches |-> {}, processed_once |-> {}, ready |-> FALSE,
     listeners |-> {"exit_on_lost"}, alive |-> TRUE, dws |-> <<>>, cws |-> <<>>]

NoInj == [n |-> 0, step |-> "none"]

Begin(e, inj) ==
    [fs |-> e.fs, watches |-> e.watches, processed_once |-> e.processed_once,
     ready |-> e.ready, listeners |-> e.listeners, alive |-> e.alive,
     dws |-> e.dws, cws |-> e.cws,
     exc |-> NoExc, ret |-> TRUE, inj |-> inj, nw |-> 0,
     muts |-> <<>>, calls |-> <<>>, cbs |-> <<>>]

Core(s) ==
    [fs |-> s.fs, watches |-> s.watches, processed_once |-> s.processed_once,
     ready |-> s.ready, listeners |-> s.listeners, alive |-> s.alive,
     dws |-> s.dws, cws |-> s.cws]

\* an exception is propagating, or the process has exited
Halted(s) == s.exc # NoExc \/ ~s.alive

Raise(s, e) == [s EXCEPT !.exc = e]

Mut(op, path) == [op |-> op, path |-> path]
Call(name, path) == [name |-> name, path |-> path]

\* utils.sys_exit: the process ends; its memory and its client's watchers go
\* with it, the mirror stays on disk
sys_exit(s) ==
    [s EXCEPT !.alive = FALSE, !.watches = {}, !.processed_once = {}, !.ready = FALSE,
              !.listeners = {}, !.dws = <<>>, !.cws = <<>>]

\* exc.exit_on_unhandled: an exception out of the wrapped function ends the process
exit_on_unhandled(s) ==
    IF s.alive /\ s.exc # NoExc THEN sys_exit(s) ELSE s

\* _update_last without the test of the ready flag
update_last_always(s) ==
    IF Halted(s) THEN s
    ELSE [s EXCEPT !.fs = touch(@, ModifiedFile),
                   !.muts = Append(@, Mut("touch", ModifiedFile))]

\* Zk2Fs._update_last
update_last(s) ==
    IF Halted(s) THEN s
    ELSE IF s.ready
      THEN [s EXCEPT !.fs = touch(@, ModifiedFile),
                     !.muts = Append(@, Mut("touch", ModifiedFile))]
    ELSE s

\* a removal that fails on a file that is not there
RmStrict(s, p) ==
    IF s.fs.files[p].exists
      THEN [s EXCEPT !.fs = rm_safe(@, p), !.muts = Append(@, Mut("rm", p))]
    ELSE Raise(s, "OSError")

\* fs.rm_safe on the mirror, logged when it removes a file
RmSafe(s, p) ==
    [s EXCEPT !.fs = rm_safe(@, p),
              !.muts = IF s.fs.files[p].exists THEN Append(@, Mut("rm", p)) ELSE @]

\* _write_data stamping the file with the time of the write
WriteDataNow(s, fp, data, stat) ==
    IF Halted(s) THEN s
    ELSE IF stat.isnone THEN Raise(s, "AttributeError")
    ELSE LET k == s.nw + 1
             failat == IF s.inj.n = k THEN s.inj.step ELSE "none"
         IN Bind(write_data(s.fs, fp, data, Now, TRUE, failat),
                 LAMBDA w :
                   [s EXCEPT !.fs = w.fs, !.exc = w.exc, !.nw = k,
                             !.muts = IF w.exc = NoExc THEN Append(@, Mut("write", fp))
                                      ELSE IF w.temp # <<>>
                                        THEN Append(@, Mut("tmp", w.temp))
                                      ELSE @])

\* Zk2Fs._write_data: write_data(fpath, data, stat.last_modified, raise_err=True)
WriteData(s, fp, data, stat) ==
    IF Halted(s) THEN s
    ELSE IF stat.isnone THEN Raise(s, "AttributeError")
    ELSE LET k == s.nw + 1
             failat == IF s.inj.n = k THEN s.inj.step ELSE "none"
         IN Bind(write_data(s.fs, fp, data, stat.last_modified, TRUE, failat),
                 LAMBDA w :
                   [s EXCEPT !.fs = w.fs, !.exc = w.exc, !.nw = k,
                             !.muts = IF w.exc = NoExc THEN Append(@, Mut("write", fp))
                                      ELSE IF w.temp # <<>>
                                        THEN Append(@, Mut("tmp", w.temp))
                                      ELSE @])

\* _data_watch without the two discards of the path from the watch set
data_watch_keep(s, zkpath, data, stat, event) ==
    IF Halted(s) THEN s
    ELSE LET fp == fpath(zkpath)
         IN Bind(IF data = NoneData /\ event = NoEvent
                   THEN RmSafe(s, fp)
                 ELSE IF event # NoEvent /\ event = "DELETED"
                   THEN RmSafe(s, fp)
                 ELSE WriteData(s, fp, data, stat),
                 LAMBDA s1 :
                   IF Halted(s1) THEN s1
                   ELSE [s1 EXCEPT !.ret = zkpath \in s1.watches])

\* _data_watch also taking the parent out of the processed-once set where it
\* discards the path
data_watch_forget(s, zkpath, data, stat, event) ==
    IF Halted(s) THEN s
    ELSE LET fp == fpath(zkpath)
             gone == [s EXCEPT !.watches = @ \ {zkpath},
                               !.processed_once = @ \ {dirname(zkpath)}]
         IN Bind(IF data = NoneData /\ event = NoEvent
                   THEN RmSafe(gone, fp)
                 ELSE IF event # NoEvent /\ event = "DELETED"
                   THEN RmSafe(gone, fp)
                 ELSE WriteData(s, fp, data, stat),
                 LAMBDA s1 :
                   IF Halted(s1) THEN s1
                   ELSE [s1 EXCEPT !.ret = zkpath \in s1.watches])

\* Zk2Fs._data_watch
data_watch(s, zkpath, data, stat, event) ==
    IF Halted(s) THEN s
    ELSE LET fp == fpath(zkpath)
         IN Bind(IF data = NoneData /\ event = NoEvent
                   THEN RmSafe([s EXCEPT !.watches = @ \ {zkpath}], fp)
                 ELSE IF event # NoEvent /\ event = "DELETED"
                   THEN RmSafe([s EXCEPT !.watches = @ \ {zkpath}], fp)
                 ELSE WriteData(s, fp, data, stat),
                 LAMBDA s1 :
                   IF Halted(s1) THEN s1
                   ELSE [s1 EXCEPT !.ret = zkpath \in s1.watches])

\* the callback of sync_data without the exit_on_unhandled decorator
DataCallbackBare(s, zkpath, data, stat, event) ==
    LET s1 == data_watch(s, zkpath, data, stat, event)
    IN update_last(s1)

\* the callback of sync_data touching .modified before it handles the delivery
DataCallbackEarly(s, zkpath, data, stat, event) ==
    LET s1 == update_last(s)
        s2 == data_watch(s1, zkpath, data, stat, event)
    IN exit_on_unhandled(s2)

\* the callback sync_data hands to DataWatch, under exit_on_unhandled
DataCallback(s, zkpath, data, stat, event) ==
    LET s1 == data_watch(s, zkpath, data, stat, event)
        s2 == update_last(s1)
    IN exit_on_unhandled(s2)

----------------------------------------------------------------------------
(* The client's DataWatch recipe: a watcher object per registration *)

NewDataWatch(zkpath) ==
    [path |-> zkpath, stopped |-> FALSE, version |-> NoVersion,
     ever_called |-> FALSE, armed |-> FALSE]

\* DataWatch._get_data: fetch with a watch (get, or exists when the node is
\* gone), then call the function the first time and when the version changed;
\* a False result stops the watcher
DataWatchGetData(s, i, event) ==
    IF Halted(s) \/ s.dws[i].stopped THEN s
    ELSE LET dw == s.dws[i]
             node == rnodes[dw.path]
             stat == StatOf(node)
             s1 == [s EXCEPT !.dws[i].version = VersionOf(stat),
                             !.dws[i].armed = TRUE,
                             !.calls = IF node.exists
                                         THEN Append(@, Call("get", dw.path))
                                       ELSE Append(Append(@, Call("get", dw.path)),
                                                   Call("exists", dw.path))]
         IN IF dw.version # VersionOf(stat) \/ ~dw.ever_called
              THEN Bind(DataCallback([s1 EXCEPT !.dws[i].ever_called = TRUE,
                                                !.cbs = Append(@, Call("data", dw.path))],
                                     dw.path, node.data, stat, event),
                        LAMBDA s2 :
                          IF ~Halted(s2) /\ s2.ret = FALSE
                            THEN [s2 EXCEPT !.dws[i].stopped = TRUE]
                          ELSE s2)
            ELSE s1

\* @zkclient.DataWatch(zkpath): register and fetch at once, in the caller's context
DataWatchRegister(s, zkpath) ==
    LET s1 == [s EXCEPT !.dws = Append(@, NewDataWatch(zkpath)),
                        !.calls = Append(@, Call("DataWatch", zkpath))]
    IN DataWatchGetData(s1, Len(s1.dws), NoEvent)

\* sync_data without its watched branch: a snapshot whatever the watch set says
sync_data_snapshot(s, zkpath) ==
    IF Halted(s) THEN s
    ELSE LET node == rnodes[zkpath]
             s1 == [s EXCEPT !.calls = Append(@, Call("get", zkpath))]
         IN IF ~node.exists THEN Raise(s1, "NoNodeError")
            ELSE update_last(WriteData(s1, fpath(zkpath), node.data, StatOf(node)))

\* sync_data whose snapshot branch also puts the path in the watch set
sync_data_watching(s, zkpath) ==
    IF Halted(s) THEN s
    ELSE IF zkpath \in s.watches THEN DataWatchRegister(s, zkpath)
    ELSE LET node == rnodes[zkpath]
             s1 == [s EXCEPT !.calls = Append(@, Call("get", zkpath)),
                             !.watches = @ \cup {zkpath}]
         IN IF ~node.exists THEN Raise(s1, "NoNodeError")
            ELSE update_last(WriteData(s1, fpath(zkpath), node.data, StatOf(node)))

\* Zk2Fs.sync_data
sync_data(s, zkpath) ==
    IF Halted(s) THEN s
    ELSE IF zkpath \in s.watches THEN DataWatchRegister(s, zkpath)
    ELSE LET node == rnodes[zkpath]
             s1 == [s EXCEPT !.calls = Append(@, Call("get", zkpath))]
         IN IF ~node.exists THEN Raise(s1, "NoNodeError")
            ELSE update_last(WriteData(s1, fpath(zkpath), node.data, StatOf(node)))

\* Zk2Fs._default_on_del and Zk2Fs._default_on_add, or the caller's own
OnDel(s, on_del, zknode) ==
    IF Halted(s) THEN s
    ELSE LET s1 == [s EXCEPT !.cbs = Append(@, Call("on_del", zknode))]
         IN IF on_del = "default" THEN RmSafe(s1, fpath(zknode))
            ELSE IF on_del = "raises" THEN Raise(s1, "CallbackError")
            ELSE s1

OnAdd(s, on_add, zknode) ==
    IF Halted(s) THEN s
    ELSE LET s1 == [s EXCEPT !.cbs = Append(@, Call("on_add", zknode))]
         IN IF on_add = "default" THEN sync_data(s1, zknode)
            ELSE IF on_add = "raises" THEN Raise(s1, "CallbackError")
            ELSE s1

----------------------------------------------------------------------------
(* Zk2Fs._children_watch *)

\* the `remove` loop without the discard of the child from the watch set
RECURSIVE RemoveLoopKeep(_, _, _, _)
RemoveLoopKeep(s, zkpath, remove, on_del) ==
    IF remove = <<>> \/ Halted(s) THEN s
    ELSE LET zknode == join_zookeeper_path(zkpath, Head(remove))
         IN RemoveLoopKeep(OnDel(s, on_del, zknode), zkpath, Tail(remove), on_del)

RECURSIVE RemoveLoop(_, _, _, _)
RemoveLoop(s, zkpath, remove, on_del) ==
    IF remove = <<>> \/ Halted(s) THEN s
    ELSE LET zknode == join_zookeeper_path(zkpath, Head(remove))
             s1 == [s EXCEPT !.watches = @ \ {zknode}]
         IN RemoveLoop(OnDel(s1, on_del, zknode), zkpath, Tail(remove), on_del)

\* the loop adding the child to the watch set after on_add has run
RECURSIVE AddLoopLate(_, _, _, _, _)
AddLoopLate(s, zkpath, nodes, watch_data, on_add) ==
    IF nodes = <<>> \/ Halted(s) THEN s
    ELSE LET zknode == join_zookeeper_path(zkpath, Head(nodes))
         IN Bind(OnAdd(s, on_add, zknode),
                 LAMBDA s1 :
                   AddLoopLate(IF watch_data /\ ~Halted(s1)
                                 THEN [s1 EXCEPT !.watches = @ \cup {zknode}]
                               ELSE s1,
                               zkpath, Tail(nodes), watch_data, on_add))

\* the loop over `common` (first reconciliation only) and the loop over `add`
RECURSIVE AddLoop(_, _, _, _, _)
AddLoop(s, zkpath, nodes, watch_data, on_add) ==
    IF nodes = <<>> \/ Halted(s) THEN s
    ELSE LET zknode == join_zookeeper_path(zkpath, Head(nodes))
             s1 == IF watch_data THEN [s EXCEPT !.watches = @ \cup {zknode}] ELSE s
         IN AddLoop(OnAdd(s1, on_add, zknode), zkpath, Tail(nodes), watch_data, on_add)

\* the `common` loop without the processed_once test
CommonAlways(s, zkpath, common, watch_data, on_add) ==
    IF Halted(s) THEN s
    ELSE AddLoop([s EXCEPT !.processed_once = @ \cup {zkpath}],
                 zkpath, common, watch_data, on_add)

CommonPart(s, zkpath, common, watch_data, on_add) ==
    IF Halted(s) THEN s
    ELSE IF zkpath \notin s.processed_once
      THEN AddLoop([s EXCEPT !.processed_once = @ \cup {zkpath}],
                   zkpath, common, watch_data, on_add)
    ELSE s

\* cont_watch_predicate(zkpath, sorted_children), when one is given
ContWatch(cont, zkpath, sorted_children) ==
    CASE cont = "yes" -> TRUE
      [] cont = "no" -> FALSE
      [] cont = "nonempty" -> sorted_children # <<>>
      [] OTHER -> TRUE

LocalNames(s, zkpath) == GlobStar(s.fs, fpath(zkpath))

children_watch(s, zkpath, children, watch_data, on_add, on_del, cont) ==
    IF Halted(s) THEN s
    ELSE LET sorted_children == Sorted(children)
             sorted_filenames == Sorted(LocalNames(s, zkpath))
         IN Bind(FilterChildrenActions(sorted_children, sorted_filenames),
                 LAMBDA d :
                   Bind(AddLoop(CommonPart(RemoveLoop(s, zkpath, d.remove, on_del),
                                           zkpath, d.common, watch_data, on_add),
                                zkpath, d.add, watch_data, on_add),
                        LAMBDA s3 :
                          IF Halted(s3) THEN s3
                          ELSE IF cont # "none"
                            THEN [s3 EXCEPT !.ret = ContWatch(cont, zkpath, sorted_children)]
                          ELSE [s3 EXCEPT !.ret = TRUE]))

\* the callback _make_children_watch hands to ChildrenWatch, under exit_on_unhandled
ChildrenCallback(s, zkpath, children, watch_data, on_add, on_del, cont) ==
    LET s1 == children_watch(s, zkpath, children, watch_data, on_add, on_del, cont)
        s2 == update_last(s1)
    IN exit_on_unhandled(s2)

----------------------------------------------------------------------------
(* The client's ChildrenWatch recipe *)

NewChildrenWatch(zkpath, watch_data, on_add, on_del, cont) ==
    [path |-> zkpath, watch_data |-> watch_data, on_add |-> on_add,
     on_del |-> on_del, cont |-> cont, stopped |-> FALSE, armed |-> FALSE]

\* ChildrenWatch._get_children: list with a watch, call the function;
\* a False result stops the watcher, and so does a path that does not exist
ChildrenWatchGetChildren(s, j) ==
    IF Halted(s) \/ s.cws[j].stopped THEN s
    ELSE IF ~rparent
      THEN [s EXCEPT !.cws[j].stopped = TRUE,
                     !.calls = Append(@, Call("get_children", s.cws[j].path))]
    ELSE LET cw == s.cws[j]
             s1 == [s EXCEPT !.cws[j].armed = TRUE,
                             !.calls = Append(@, Call("get_children", cw.path)),
                             !.cbs = Append(@, Call("children", cw.path))]
         IN Bind(ChildrenCallback(s1, cw.path, get_children(cw.path),
                                  cw.watch_data, cw.on_add, cw.on_del, cw.cont),
                 LAMBDA s2 :
                   IF ~Halted(s2) /\ s2.ret = FALSE
                     THEN [s2 EXCEPT !.cws[j].stopped = TRUE]
                   ELSE s2)

\* Zk2Fs._make_children_watch: @zkclient.ChildrenWatch(zkpath) registers and
\* lists at once, in the caller's context
make_children_watch(s, zkpath, watch_data, on_add, on_del, cont) ==
    IF Halted(s) THEN s
    ELSE LET s1 == [s EXCEPT !.cws = Append(@, NewChildrenWatch(zkpath, watch_data,
                                                               on_add, on_del, cont)),
                             !.calls = Append(@, Call("ChildrenWatch", zkpath))]
         IN ChildrenWatchGetChildren(s1, Len(s1.cws))

----------------------------------------------------------------------------
(* Zk2Fs.sync_children *)

TouchDone(s, done_file) ==
    IF Halted(s) THEN s
    ELSE [s EXCEPT !.fs = touch(@, done_file),
                   !.muts = Append(@, Mut("touch", done_file))]

MkdirSafe(s, dir) ==
    [s EXCEPT !.fs = mkdir_safe(@, dir),
              !.muts = IF dir \in s.fs.dirs THEN @ ELSE Append(@, Mut("mkdir", dir))]

\* the one-shot branch without the except clause around get_children
OneShotNoCatch(s, zkpath, watch_data, on_add, on_del, cont) ==
    LET s1 == [s EXCEPT !.calls = Append(@, Call("get_children", zkpath))]
    IN Bind(IF rparent
              THEN children_watch(s1, zkpath, get_children(zkpath), watch_data,
                                  on_add, on_del, cont)
            ELSE Raise(s1, "NoNodeError"),
            LAMBDA s2 :
              update_last(IF ~Halted(s2) /\ s2.ret
                            THEN [make_children_watch(s2, zkpath, watch_data,
                                                      on_add, on_del, cont)
                                     EXCEPT !.ret = TRUE]
                          ELSE s2))

\* the branch taken when need_watch_predicate said no: one listing (no
\* children where the path does not exist: NoNodeError is caught), one
\* reconciliation in the caller's context, a watch if it asks for one
OneShot(s, zkpath, watch_data, on_add, on_del, cont) ==
    LET s1 == [s EXCEPT !.calls = Append(@, Call("get_children", zkpath))]
    IN Bind(children_watch(s1, zkpath, IF rparent THEN get_children(zkpath) ELSE {},
                           watch_data, on_add, on_del, cont),
            LAMBDA s2 :
              update_last(IF ~Halted(s2) /\ s2.ret
                            THEN [make_children_watch(s2, zkpath, watch_data,
                                                      on_add, on_del, cont)
                                     EXCEPT !.ret = TRUE]
                          ELSE s2))

\* sync_children without the test of the done file
sync_children_no_done(s, zkpath, watch_data, on_add, on_del, need, cont) ==
    LET dir == fpath(zkpath)
        done_file == DoneFile(dir)
        s0 == MkdirSafe(s, dir)
        need_watch == IF need # "none" THEN need = "yes" ELSE TRUE
    IN Bind(IF need_watch
              THEN [make_children_watch(s0, zkpath, watch_data, on_add, on_del, cont)
                       EXCEPT !.ret = TRUE]
            ELSE OneShot(s0, zkpath, watch_data, on_add, on_del, cont),
            LAMBDA s1 :
              IF ~Halted(s1) /\ ~s1.ret THEN TouchDone(s1, done_file) ELSE s1)

sync_children(s, zkpath, watch_data, on_add, on_del, need, cont) ==
    LET dir == fpath(zkpath)
        done_file == DoneFile(dir)
        s0 == MkdirSafe(s, dir)
        need_watch == IF need # "none" THEN need = "yes" ELSE TRUE
    IN IF s0.fs.files[done_file].exists THEN s0
       ELSE Bind(IF need_watch
                   THEN [make_children_watch(s0, zkpath, watch_data,
                                             on_add, on_del, cont)
                            EXCEPT !.ret = TRUE]
                 ELSE OneShot(s0, zkpath, watch_data, on_add, on_del, cont),
                 LAMBDA s1 :
                   IF ~Halted(s1) /\ ~s1.ret THEN TouchDone(s1, done_file) ELSE s1)

\* Zk2Fs.mark_ready
mark_ready(s) == update_last([s EXCEPT !.ready = TRUE])

----------------------------------------------------------------------------
(* Watch events: a remote change fires the armed watchers of the path once, *)
(* the data watchers of the node before the children watchers of its parent *)

DataEvents(e, zkpath, ev) ==
    LET RECURSIVE From(_)
        From(i) ==
            IF i > Len(e.dws) \/ ~e.alive THEN <<>>
            ELSE IF e.dws[i].path = zkpath /\ e.dws[i].armed /\ ~e.dws[i].stopped
              THEN <<[kind |-> "data", id |-> i, ev |-> ev]>> \o From(i + 1)
            ELSE From(i + 1)
    IN From(1)

ChildEvents(e, zkpath) ==
    LET RECURSIVE From(_)
        From(j) ==
            IF j > Len(e.cws) \/ ~e.alive THEN <<>>
            ELSE IF e.cws[j].path = zkpath /\ e.cws[j].armed /\ ~e.cws[j].stopped
              THEN <<[kind |-> "children", id |-> j, ev |-> "CHILD"]>> \o From(j + 1)
            ELSE From(j + 1)
    IN From(1)

\* the watchers an event fired are no longer armed (watches are one-shot)
Disarm(e, fired) ==
    [e EXCEPT
       !.dws = [i \in 1..Len(@) |->
                  IF \E k \in 1..Len(fired) : fired[k].kind = "data" /\ fired[k].id = i
                    THEN [@[i] EXCEPT !.armed = FALSE] ELSE @[i]],
       !.cws = [j \in 1..Len(@) |->
                  IF \E k \in 1..Len(fired) : fired[k].kind = "children" /\ fired[k].id = j
                    THEN [@[j] EXCEPT !.armed = FALSE] ELSE @[j]]]

----------------------------------------------------------------------------
(* What a step did *)

Log(op, zkpath, ev, s) ==
    [op |-> op, path |-> zkpath, ev |-> ev, exc |-> s.exc, ret |-> s.ret,
     exited |-> ~s.alive, muts |-> s.muts, calls |-> s.calls, cbs |-> s.cbs]

EnvLog(op) ==
    [op |-> op, path |-> <<>>, ev |-> NoEvent, exc |-> NoExc, ret |-> TRUE,
     exited |-> FALSE, muts |-> <<>>, calls |-> <<>>, cbs |-> <<>>]

----------------------------------------------------------------------------
(* Initial states *)

\* the mirror a process starts on: empty, or what an earlier run left
StaleDir ==
    [mkdir_safe(EmptyFs, fpath(ZkPath))
        EXCEPT !.files[fpath(join_zookeeper_path(ZkPath, "host1"))] = File("B", 0, 420)]

InitMirrors == {EmptyFs, StaleDir}

InitRemotes ==
    {[p \in ChildPaths |-> NoNode],
     [p \in ChildPaths |->
        IF basename(p) = "host1" THEN Node("A", 0) ELSE Node("B", 0)]}

----------------------------------------------------------------------------
(* The init daemon (sproc/init.py): the node's registration and shutdown    *)

\* the listener top hands to zkutils.connect
Listener == "_exit_clear_watchdog_on_lost"

\* a node of the namespace as the daemon reads it: the session that owns it
\* ("none" for a node that is not ephemeral), the transaction that created it
NoZnode == [exists |-> FALSE, owner |-> "none", czxid |-> 0, data |-> ""]
Znode(owner, czxid, data) ==
    [exists |-> TRUE, owner |-> owner, czxid |-> czxid, data |-> data]

\* top, up to the blackout check: the client is connected with the listener
\* registered, the namespace and the server node exist
NodeState(presence, blackout, forwarding, exit_on_fail) ==
    [pc |-> "check_blackout",
     exit_on_fail |-> exit_on_fail,
     listeners |-> {Listener},
     client |-> "started",
     kstate |-> "CONNECTED",
     zxid |-> 0,
     presence |-> presence,
     server |-> [data |-> "scheduler", version |-> 0],
     blackout |-> blackout,
     forwarding |-> forwarding,
     containers |-> "running",
     watchdog_failed |-> FALSE,
     watch |-> "none",
     pending |-> "none",
     node_deleted_event |-> FALSE,
     blacklisted |-> FALSE,
     down_reason |-> "None",
     exit |-> "none",
     log |-> <<>>]

\* the daemon where the other specifications leave it: not started
NodeIdle ==
    [NodeState(NoZnode, NoZnode, FALSE, FALSE) EXCEPT !.pc = "idle", !.listeners = {},
                                                     !.client = "closed", !.kstate = "LOST"]

\* the program made this call
Did(n, what) == [n EXCEPT !.log = Append(@, what)]

\* utils.sys_exit(-1) in the daemon: the process ends
sys_exit_code(n, how) == [Did(n, "sys_exit") EXCEPT !.pc = "exited", !.exit = how]

\* _exit_clear_watchdog_on_lost(state)
exit_clear_watchdog_on_lost(n, state) ==
    IF state = "LOST" THEN sys_exit_code(n, "lost") ELSE n

\* the client enters a state and calls its listeners
StateChange(n, state) ==
    LET n1 == [n EXCEPT !.kstate = state]
    IN IF Listener \in n.listeners THEN exit_clear_watchdog_on_lost(n1, state) ELSE n1

\* the server drops the ephemeral nodes of the daemon's session when the
\* session ends
SessionEnd(n) ==
    [n EXCEPT !.presence = IF @.exists /\ @.owner = "self" THEN NoZnode ELSE @]

\* a change of the presence node triggers the watch the client left on it
Fire(n, type) ==
    IF n.watch = "armed" /\ n.pending = "none" THEN [n EXCEPT !.pending = type] ELSE n

\* zkclient.delete / zkutils.ensure_deleted on the presence node
DeletePresence(n) ==
    IF n.presence.exists THEN Fire([n EXCEPT !.presence = NoZnode], "DELETED") ELSE n

\* zkutils.put(zkclient, zk_presence_path, {'seen': False}, ephemeral=True):
\* create the node, or set its data where it exists
PutPresence(n) ==
    IF n.presence.exists
      THEN Fire([n EXCEPT !.presence.data = "unseen"], "CHANGED")
      ELSE [n EXCEPT !.zxid = @ + 1,
                     !.presence = Znode("self", n.zxid + 1, "unseen")]

\* _node_initialize
node_initialize(n) ==
    LET n1 == Did([n EXCEPT !.server = [data |-> "merged", version |-> @.version + 1]],
                  "zkutils.update")
        n2 == Did(PutPresence(n1), "zkutils.put")
    IN Did(n2, "tm_env.initialize")

\* _node_start without its test of the owner: every start initializes
node_start_always(n) == node_initialize(n)

\* _node_start
node_start(n) ==
    IF ~n.presence.exists
      THEN node_initialize(n)
      ELSE IF n.presence.owner = "self"
        THEN n
        ELSE node_initialize(Did(DeletePresence(n), "zkclient.delete"))

\* _init_network
init_network(n) == Did([n EXCEPT !.forwarding = TRUE], "init_network")

\* _cleanup_network
cleanup_network(n) == Did([n EXCEPT !.forwarding = FALSE], "cleanup_network")

\* _blackout_terminate
blackout_terminate(n) == Did([n EXCEPT !.containers = "terminated"], "blackout_terminate")

\* _main_loop._exit_on_delete(data, _stat, event): the value it returns and
\* the daemon after it
exit_on_delete(n, data_none, event) ==
    IF data_none \/ event = "DELETED"
      THEN [ret |-> FALSE, n |-> [n EXCEPT !.node_deleted_event = TRUE]]
      ELSE [ret |-> TRUE, n |-> n]

\* the DataWatch on the presence node calls _exit_on_delete with the node's
\* data and stays for as long as the function returns True
PresenceWatchCall(n, event) ==
    LET r == exit_on_delete(n, ~n.presence.exists, event)
    IN [r.n EXCEPT !.pending = "none",
                   !.watch = IF r.ret THEN "armed" ELSE "stopped"]

\* _main_loop, up to its loop: the event is cleared and the watch registered,
\* which calls the function once
main_loop_setup(n) ==
    Did(PresenceWatchCall([n EXCEPT !.node_deleted_event = FALSE, !.down_reason = "None"],
                          "None"),
        "DataWatch")

\* _main_loop, one turn of its loop: the value of down_reason and whether the
\* loop is left
main_loop_turn(n) ==
    IF n.node_deleted_event
      THEN [left |-> TRUE, down_reason |-> n.down_reason]
      ELSE IF n.watchdog_failed
        THEN [left |-> TRUE, down_reason |-> "watchdogs failed"]
        ELSE [left |-> FALSE, down_reason |-> n.down_reason]

\* top with the blackout written whatever the main loop returned
top_blackout_always(n) ==
    Did([n EXCEPT !.zxid = IF n.blackout.exists THEN @ ELSE @ + 1,
                  !.blackout = IF @.exists
                                 THEN [@ EXCEPT !.data = n.down_reason]
                                 ELSE Znode("none", n.zxid + 1, n.down_reason)],
        "zkutils.ensure_exists")

\* top, lines 85-94: the blackout node is written with the reason as data
top_blackout(n) ==
    IF n.down_reason # "None"
      THEN Did([n EXCEPT !.zxid = IF n.blackout.exists THEN @ ELSE @ + 1,
                         !.blackout = IF @.exists
                                        THEN [@ EXCEPT !.data = n.down_reason]
                                        ELSE Znode("none", n.zxid + 1, n.down_reason)],
               "zkutils.ensure_exists")
      ELSE n

\* top without its line 104: the listener stays registered
remove_listener_kept(n) == Did(n, "remove_listener")

\* top, line 104
remove_listener(n) == Did([n EXCEPT !.listeners = @ \ {Listener}], "remove_listener")

\* zkclient.stop(): the session is closed and the client enters LOST, which
\* its listeners are told
client_stop(n) ==
    StateChange(SessionEnd(Did([n EXCEPT !.client = "stopped", !.watch = "stopped",
                                         !.pending = "none"], "stop")), "LOST")

\* zkclient.close()
client_close(n) == Did([n EXCEPT !.client = "closed"], "close")

IdleDiff == DiffInit(<<>>, <<>>)
IdleWrite == [w |-> [WriteInit(EmptyFs, <<FsRoot, "x">>, NoneData, 0, TRUE)
                        EXCEPT !.pc = "idle"],
              pre |-> NoFile]

\* both threads outside the engine (SpecThreads follows them; elsewhere a
\* step is a whole operation)
NoThreads == [caller |-> "idle", client |-> "idle"]

\* the arguments of a call the caller repeats (SpecIdem); none elsewhere
NoCall == [watch_data |-> FALSE, hooks |-> "none", need |-> "none", cont |-> "none"]

Init ==
    /\ rnodes \in InitRemotes
    /\ clock = 0
    /\ queue = <<>>
    /\ session = "CONNECTED"
    /\ eng \in {EngineInit(fs) : fs \in InitMirrors}
    /\ last = EnvLog("init")
    /\ nsync = 0
    /\ nfaults = 0
    /\ diff = IdleDiff
    /\ wr = IdleWrite
    /\ call = NoCall
    /\ threads = NoThreads
    /\ cancelled = {}
    /\ rparent = TRUE
    /\ initd = NodeIdle

\* SpecDiff and SpecWrite leave the engine where it starts
EngineIdle ==
    /\ rnodes = [p \in ChildPaths |-> NoNode]
    /\ clock = 0
    /\ queue = <<>>
    /\ session = "CONNECTED"
    /\ eng = EngineInit(EmptyFs)
    /\ last = EnvLog("init")
    /\ nsync = 0
    /\ nfaults = 0
    /\ call = NoCall
    /\ threads = NoThreads
    /\ cancelled = {}
    /\ rparent = TRUE
    /\ initd = NodeIdle

engine_vars == <<rnodes, clock, queue, session, eng, last, nsync, nfaults, call, threads, cancelled, rparent, initd>>

----------------------------------------------------------------------------
(* The remote side: other clients create, set and delete children *)

RemoteCreate(p, d) ==
    /\ eng.alive
    /\ clock < MaxRemoteOps
    /\ ~rnodes[p].exists
    /\ clock' = clock + 1
    /\ rnodes' = [rnodes EXCEPT ![p] = Node(d, clock + 1)]
    /\ LET fired == DataEvents(eng, p, "CREATED") \o ChildEvents(eng, dirname(p))
       IN /\ queue' = queue \o fired
          /\ eng' = Disarm(eng, fired)
    /\ last' = EnvLog("remote")
    /\ UNCHANGED <<session, nsync, nfaults, diff, wr, call, threads, cancelled, rparent, initd>>

RemoteSet(p, d) ==
    /\ eng.alive
    /\ clock < MaxRemoteOps
    /\ rnodes[p].exists
    /\ clock' = clock + 1
    /\ rnodes' = [rnodes EXCEPT ![p] = Node(d, clock + 1)]
    /\ LET fired == DataEvents(eng, p, "CHANGED")
       IN /\ queue' = queue \o fired
          /\ eng' = Disarm(eng, fired)
    /\ last' = EnvLog("remote")
    /\ UNCHANGED <<session, nsync, nfaults, diff, wr, call, threads, cancelled, rparent, initd>>

RemoteDelete(p) ==
    /\ eng.alive
    /\ clock < MaxRemoteOps
    /\ rnodes[p].exists
    /\ clock' = clock + 1
    /\ rnodes' = [rnodes EXCEPT ![p] = NoNode]
    /\ LET fired == DataEvents(eng, p, "DELETED") \o ChildEvents(eng, dirname(p))
       IN /\ queue' = queue \o fired
          /\ eng' = Disarm(eng, fired)
    /\ last' = EnvLog("remote")
    /\ UNCHANGED <<session, nsync, nfaults, diff, wr, call, threads, cancelled, rparent, initd>>

----------------------------------------------------------------------------
(* The process: the caller's calls and the client's dispatch of the queue *)

\* a local write failure to inject: the first write_data of the step fails
Injections == {NoInj, [n |-> 1, step |-> "rename"]}

\* an injection is taken only where the step reaches that write
InjOk(inj, s) ==
    \/ inj = NoInj /\ nfaults' = nfaults
    \/ inj # NoInj /\ nfaults < MaxFaults /\ s.nw >= inj.n /\ nfaults' = nfaults + 1

\* on_add and on_del: the defaults, or the caller's own, which here raise
Callbacks == {"default", "raises"}
NeedKinds == {"none", "yes", "no"}
ContKinds == {"none", "yes", "no"}

SyncChildren(watch_data, hooks, need, cont, inj) ==
    /\ eng.alive
    /\ nsync < MaxSyncCalls
    /\ \E s \in {sync_children(Begin(eng, inj), ZkPath, watch_data, hooks, hooks,
                                need, cont)} :
          /\ InjOk(inj, s)
          /\ eng' = Core(s)
          /\ last' = Log("sync_children", ZkPath, NoEvent, s)
    /\ nsync' = nsync + 1
    /\ queue' = IF eng'.alive THEN queue ELSE <<>>
    /\ UNCHANGED <<rnodes, clock, session, diff, wr, call, threads, cancelled, rparent, initd>>

SyncData(p, inj) ==
    /\ eng.alive
    /\ nsync < MaxSyncCalls
    /\ \E s \in {sync_data(Begin(eng, inj), p)} :
          /\ InjOk(inj, s)
          /\ eng' = Core(s)
          /\ last' = Log("sync_data", p, NoEvent, s)
    /\ nsync' = nsync + 1
    /\ queue' = IF eng'.alive THEN queue ELSE <<>>
    /\ UNCHANGED <<rnodes, clock, session, diff, wr, call, threads, cancelled, rparent, initd>>

MarkReady ==
    /\ eng.alive
    /\ \E s \in {mark_ready(Begin(eng, NoInj))} :
          /\ eng' = Core(s)
          /\ last' = Log("mark_ready", <<>>, NoEvent, s)
    /\ UNCHANGED <<rnodes, clock, queue, session, nsync, nfaults, diff, wr, call, threads, cancelled, rparent, initd>>

\* the client dispatches the event at the head of its queue to its watcher
Deliver(inj) ==
    /\ eng.alive
    /\ queue # <<>>
    /\ \E s \in {IF Head(queue).kind = "data"
                     THEN DataWatchGetData(Begin(eng, inj), Head(queue).id, Head(queue).ev)
                   ELSE ChildrenWatchGetChildren(Begin(eng, inj), Head(queue).id)} :
       LET e == Head(queue)
           zkpath == IF e.kind = "data" THEN eng.dws[e.id].path ELSE eng.cws[e.id].path
       IN /\ InjOk(inj, s)
          /\ eng' = Core(s)
          /\ last' = Log(IF e.kind = "data" THEN "deliver_data" ELSE "deliver_children",
                         zkpath, e.ev, s)
    /\ queue' = IF eng'.alive THEN Tail(queue) ELSE <<>>
    /\ UNCHANGED <<rnodes, clock, session, nsync, diff, wr, call, threads, cancelled, rparent, initd>>

\* zkutils.exit_on_lost, the listener Zk2Fs.__init__ registers
exit_on_lost(e, state) ==
    IF state = "LOST" THEN sys_exit(e) ELSE e

SessionStates == {"CONNECTED", "SUSPENDED", "LOST"}

\* the client reports a session-state transition to its listeners
SessionChange(state) ==
    /\ eng.alive
    /\ state # session
    /\ session # "LOST"
    /\ session' = state
    /\ eng' = IF "exit_on_lost" \in eng.listeners THEN exit_on_lost(eng, state) ELSE eng
    /\ last' = [EnvLog("session") EXCEPT !.ev = state, !.exited = ~eng'.alive]
    /\ queue' = IF eng'.alive THEN queue ELSE <<>>
    /\ UNCHANGED <<rnodes, clock, nsync, nfaults, diff, wr, call, threads, cancelled, rparent, initd>>

\* the steps of the remote side and of the process, local faults and the
\* caller's own callbacks as given
Steps(hooks_kinds, injections) ==
    \/ \E p \in ChildPaths, d \in RemoteData : RemoteCreate(p, d)
    \/ \E p \in ChildPaths, d \in RemoteData : RemoteSet(p, d)
    \/ \E p \in ChildPaths : RemoteDelete(p)
    \/ \E watch_data \in BOOLEAN, hooks \in hooks_kinds,
          need \in NeedKinds, cont \in ContKinds, inj \in injections :
            SyncChildren(watch_data, hooks, need, cont, inj)
    \/ \E p \in ChildPaths, inj \in injections : SyncData(p, inj)
    \/ MarkReady
    \/ \E inj \in injections : Deliver(inj)

\* Spec: every step, the session only ever lost (the listener ignores the rest)
Next ==
    \/ Steps(Callbacks, Injections)
    \/ SessionChange("LOST")

Spec == Init /\ [][Next]_vars

\* SpecSession: every session transition, the default callbacks, no local fault
NextSession ==
    \/ Steps({"default"}, {NoInj})
    \/ \E state \in SessionStates : SessionChange(state)

SpecSession == Init /\ [][NextSession]_vars

----------------------------------------------------------------------------
(* SpecIdem: the caller repeats one sync_children call; the remote side     *)
(* does not change, so no watch fires                                       *)

CallArgs ==
    [watch_data : BOOLEAN, hooks : {"default"}, need : NeedKinds, cont : ContKinds]

InitIdem ==
    /\ rnodes \in InitRemotes
    /\ clock = 0
    /\ queue = <<>>
    /\ session = "CONNECTED"
    /\ eng \in {EngineInit(fs) : fs \in InitMirrors}
    /\ last = EnvLog("init")
    /\ nsync = 0
    /\ nfaults = 0
    /\ diff = IdleDiff
    /\ wr = IdleWrite
    /\ call \in CallArgs
    /\ threads = NoThreads
    /\ cancelled = {}
    /\ rparent = TRUE
    /\ initd = NodeIdle

NextIdem ==
    \/ MarkReady
    \/ SyncChildren(call.watch_data, call.hooks, call.need, call.cont, NoInj)

SpecIdem == InitIdem /\ [][NextIdem]_vars

----------------------------------------------------------------------------
(* SpecThreads: the caller calls sync_children on its own thread; the       *)
(* client runs watch callbacks one at a time on its callback thread. A      *)
(* thread is in the engine from its Enter step to its Return step, where    *)
(* the operation takes effect. Zk2Fs takes no lock on either path.          *)

\* the caller's thread enters sync_children (nothing to wait for)
CallerEnter(watch_data) ==
    /\ eng.alive
    /\ threads.caller = "idle"
    /\ nsync < MaxSyncCalls
    /\ threads' = [threads EXCEPT !.caller = "sync_children"]
    /\ call' = [NoCall EXCEPT !.watch_data = watch_data, !.hooks = "default"]
    /\ UNCHANGED <<rnodes, clock, queue, session, eng, last, nsync, nfaults, diff, wr, cancelled, rparent, initd>>

CallerReturn ==
    /\ eng.alive
    /\ threads.caller = "sync_children"
    /\ \E s \in {sync_children(Begin(eng, NoInj), ZkPath, call.watch_data, call.hooks,
                                call.hooks, call.need, call.cont)} :
          /\ eng' = Core(s)
          /\ last' = Log("sync_children", ZkPath, NoEvent, s)
    /\ nsync' = nsync + 1
    /\ queue' = IF eng'.alive THEN queue ELSE <<>>
    /\ threads' = IF eng'.alive THEN [threads EXCEPT !.caller = "idle"] ELSE NoThreads
    /\ call' = NoCall
    /\ UNCHANGED <<rnodes, clock, session, nfaults, diff, wr, cancelled, rparent, initd>>

\* the client's callback thread takes the event at the head of the queue and
\* enters the watcher's callback (one callback at a time on that thread)
ClientEnter ==
    /\ eng.alive
    /\ threads.client = "idle"
    /\ queue # <<>>
    /\ threads' = [threads EXCEPT !.client = "callback"]
    /\ UNCHANGED <<rnodes, clock, queue, session, eng, last, nsync, nfaults, diff, wr, call, cancelled, rparent, initd>>

ClientReturn ==
    /\ eng.alive
    /\ threads.client = "callback"
    /\ \E s \in {IF Head(queue).kind = "data"
                     THEN DataWatchGetData(Begin(eng, NoInj), Head(queue).id, Head(queue).ev)
                   ELSE ChildrenWatchGetChildren(Begin(eng, NoInj), Head(queue).id)} :
       LET e == Head(queue)
           zkpath == IF e.kind = "data" THEN eng.dws[e.id].path ELSE eng.cws[e.id].path
       IN /\ eng' = Core(s)
          /\ last' = Log(IF e.kind = "data" THEN "deliver_data" ELSE "deliver_children",
                         zkpath, e.ev, s)
    /\ queue' = IF eng'.alive THEN Tail(queue) ELSE <<>>
    /\ threads' = IF eng'.alive THEN [threads EXCEPT !.client = "idle"] ELSE NoThreads
    /\ call' = IF eng'.alive THEN call ELSE NoCall
    /\ UNCHANGED <<rnodes, clock, session, nsync, nfaults, diff, wr, cancelled, rparent, initd>>

NextThreads ==
    \/ \E p \in ChildPaths, d \in RemoteData : RemoteCreate(p, d)
    \/ \E p \in ChildPaths, d \in RemoteData : RemoteSet(p, d)
    \/ \E p \in ChildPaths : RemoteDelete(p)
    \/ \E watch_data \in BOOLEAN : CallerEnter(watch_data)
    \/ CallerReturn
    \/ ClientEnter
    \/ ClientReturn

SpecThreads == Init /\ [][NextThreads]_vars

----------------------------------------------------------------------------
(* SpecPred: the caller makes its sync_children calls with one choice of    *)
(* watch_data and predicates, kept in `call`; the remote side changes and   *)
(* the client delivers                                                      *)

PredArgs ==
    [watch_data : BOOLEAN, hooks : {"default"}, need : NeedKinds,
     cont : ContKinds \cup {"nonempty"}]

InitPred ==
    /\ rnodes \in InitRemotes
    /\ clock = 0
    /\ queue = <<>>
    /\ session = "CONNECTED"
    /\ eng \in {EngineInit(fs) : fs \in InitMirrors}
    /\ last = EnvLog("init")
    /\ nsync = 0
    /\ nfaults = 0
    /\ diff = IdleDiff
    /\ wr = IdleWrite
    /\ call \in PredArgs
    /\ threads = NoThreads
    /\ cancelled = {}
    /\ rparent = TRUE
    /\ initd = NodeIdle

NextPred ==
    \/ \E p \in ChildPaths, d \in RemoteData : RemoteCreate(p, d)
    \/ \E p \in ChildPaths, d \in RemoteData : RemoteSet(p, d)
    \/ \E p \in ChildPaths : RemoteDelete(p)
    \/ SyncChildren(call.watch_data, call.hooks, call.need, call.cont, NoInj)
    \/ Deliver(NoInj)

SpecPred == InitPred /\ [][NextPred]_vars

----------------------------------------------------------------------------
(* SpecData: the engine on nodes that hold a blob, the empty blob or no     *)
(* data at all; the default callbacks, no local fault                       *)

NodeData == Data \cup {NoneData}

InitData ==
    /\ rnodes \in {[p \in ChildPaths |->
                       IF basename(p) = "host1" THEN Node(d, 0) ELSE Node("B", 0)] :
                    d \in NodeData}
    /\ clock = 0
    /\ queue = <<>>
    /\ session = "CONNECTED"
    /\ eng \in {EngineInit(fs) : fs \in InitMirrors}
    /\ last = EnvLog("init")
    /\ nsync = 0
    /\ nfaults = 0
    /\ diff = IdleDiff
    /\ wr = IdleWrite
    /\ call = NoCall
    /\ threads = NoThreads
    /\ cancelled = {}
    /\ rparent = TRUE
    /\ initd = NodeIdle

NextData ==
    \/ \E d \in NodeData : RemoteSet(join_zookeeper_path(ZkPath, "host1"), d)
    \/ \E watch_data \in BOOLEAN :
          SyncChildren(watch_data, "default", "none", "none", NoInj)
    \/ \E p \in ChildPaths : SyncData(p, NoInj)
    \/ Deliver(NoInj)

SpecData == InitData /\ [][NextData]_vars

----------------------------------------------------------------------------
(* SpecCancel: two watched children, set, deleted and created again by     *)
(* other clients while the caller repeats sync_children(watch_data=True);   *)
(* `cancelled` follows the data watchers that were live when their path     *)
(* left the watch set                                                       *)

MaxCancelOps == 3
MaxCancelCalls == 3

CancelPath == join_zookeeper_path(ZkPath, "host1")

InitCancel ==
    /\ rnodes = [p \in ChildPaths |-> IF p = CancelPath THEN Node("A", 0) ELSE Node("B", 0)]
    /\ clock = 0
    /\ queue = <<>>
    /\ session = "CONNECTED"
    /\ eng = EngineInit(EmptyFs)
    /\ last = EnvLog("init")
    /\ nsync = 0
    /\ nfaults = 0
    /\ diff = IdleDiff
    /\ wr = IdleWrite
    /\ call = NoCall
    /\ threads = NoThreads
    /\ cancelled = {}
    /\ rparent = TRUE
    /\ initd = NodeIdle

\* the live data watchers of e2 that were cancelled before, or whose path the
\* step from e to e2 took out of the watch set
CancelledAfter(e, e2, c) ==
    IF ~e2.alive THEN {}
    ELSE {i \in 1..Len(e2.dws) :
            /\ ~e2.dws[i].stopped
            /\ \/ i \in c
               \/ /\ i <= Len(e.dws)
                  /\ ~e.dws[i].stopped
                  /\ e.dws[i].path \in e.watches
                  /\ e.dws[i].path \notin e2.watches}

\* another client changes a child: set, delete or create
CancelRemote(p, kind) ==
    /\ eng.alive
    /\ clock < MaxCancelOps
    /\ rnodes[p].exists <=> kind \in {"CHANGED", "DELETED"}
    /\ clock' = clock + 1
    /\ rnodes' = [rnodes EXCEPT ![p] =
                     IF kind = "DELETED" THEN NoNode ELSE Node("B", clock + 1)]
    /\ LET fired == DataEvents(eng, p, kind)
                      \o (IF kind = "CHANGED" THEN <<>> ELSE ChildEvents(eng, ZkPath))
       IN /\ queue' = queue \o fired
          /\ eng' = Disarm(eng, fired)
    /\ last' = EnvLog("remote")
    /\ UNCHANGED <<session, nsync, nfaults, diff, wr, call, threads, cancelled, rparent, initd>>

CancelSyncChildren ==
    /\ eng.alive
    /\ nsync < MaxCancelCalls
    /\ \E s \in {sync_children(Begin(eng, NoInj), ZkPath, TRUE, "default", "default",
                                "none", "none")} :
          /\ eng' = Core(s)
          /\ last' = Log("sync_children", ZkPath, NoEvent, s)
    /\ nsync' = nsync + 1
    /\ queue' = IF eng'.alive THEN queue ELSE <<>>
    /\ cancelled' = CancelledAfter(eng, eng', cancelled)
    /\ UNCHANGED <<rnodes, clock, session, nfaults, diff, wr, call, threads, rparent, initd>>

CancelDeliver ==
    /\ eng.alive
    /\ queue # <<>>
    /\ \E s \in {IF Head(queue).kind = "data"
                     THEN DataWatchGetData(Begin(eng, NoInj), Head(queue).id, Head(queue).ev)
                   ELSE ChildrenWatchGetChildren(Begin(eng, NoInj), Head(queue).id)} :
       LET e == Head(queue)
           zkpath == IF e.kind = "data" THEN eng.dws[e.id].path ELSE eng.cws[e.id].path
       IN /\ eng' = Core(s)
          /\ last' = Log(IF e.kind = "data" THEN "deliver_data" ELSE "deliver_children",
                         zkpath, e.ev, s)
    /\ queue' = IF eng'.alive THEN Tail(queue) ELSE <<>>
    /\ cancelled' = CancelledAfter(eng, eng', cancelled)
    /\ UNCHANGED <<rnodes, clock, session, nsync, nfaults, diff, wr, call, threads, rparent, initd>>

NextCancel ==
    \/ \E p \in ChildPaths, kind \in {"CHANGED", "DELETED", "CREATED"} : CancelRemote(p, kind)
    \/ CancelSyncChildren
    \/ CancelDeliver

SpecCancel == InitCancel /\ [][NextCancel]_vars

----------------------------------------------------------------------------

(* SpecNoNode: sync_children with a need_watch_predicate that says no, on   *)
(* a path that may not exist remotely; the default callbacks                *)

\* a mirror that holds a file for each child, left by an earlier run
FullDir ==
    [StaleDir EXCEPT !.files[fpath(join_zookeeper_path(ZkPath, "host2"))] = File("A", 0, 420)]

InitNoNode ==
    /\ initd = NodeIdle
    /\ rparent \in BOOLEAN
    /\ rnodes \in (IF rparent THEN InitRemotes ELSE {[p \in ChildPaths |-> NoNode]})
    /\ clock = 0
    /\ queue = <<>>
    /\ session = "CONNECTED"
    /\ eng \in {EngineInit(fs) : fs \in InitMirrors \cup {FullDir}}
    /\ last = EnvLog("init")
    /\ nsync = 0
    /\ nfaults = 0
    /\ diff = IdleDiff
    /\ wr = IdleWrite
    /\ call = NoCall
    /\ threads = NoThreads
    /\ cancelled = {}

NextNoNode ==
    \/ \E p \in ChildPaths, d \in RemoteData : rparent /\ RemoteCreate(p, d)
    \/ \E p \in ChildPaths : rparent /\ RemoteDelete(p)
    \/ \E watch_data \in BOOLEAN, cont \in ContKinds :
          SyncChildren(watch_data, "default", "no", cont, NoInj)
    \/ MarkReady
    \/ Deliver(NoInj)

SpecNoNode == InitNoNode /\ [][NextNoNode]_vars

----------------------------------------------------------------------------

(* SpecDiff: _filter_children_actions on every pair of sorted, duplicate-free *)
(* lists of at most MaxLen names, one loop iteration per step               *)

SortedLists == {Sorted(S) : S \in {T \in SUBSET DiffNames : Cardinality(T) <= MaxLen}}

InitDiff ==
    /\ EngineIdle
    /\ diff \in {DiffInit(sc, sf) : sc \in SortedLists, sf \in SortedLists}
    /\ wr = IdleWrite

DiffIterate ==
    /\ DiffRunning(diff)
    /\ diff' = FilterStep(diff)
    /\ UNCHANGED <<engine_vars, wr>>

SpecDiff == InitDiff /\ [][DiffIterate]_vars

----------------------------------------------------------------------------
(* SpecWrite: write_data one statement per step; the system call of any     *)
(* statement may fail                                                       *)

WritePath == fpath(join_zookeeper_path(ZkPath, "host1"))

WriteDirs ==
    {EmptyFs,
     mkdir_safe(EmptyFs, fpath(ZkPath)),
     [mkdir_safe(EmptyFs, fpath(ZkPath)) EXCEPT !.files[WritePath] = File("A", 1, 420)]}

InitWrite ==
    /\ EngineIdle
    /\ diff = IdleDiff
    /\ wr \in {[w |-> WriteInit(fs, WritePath, data, modified, raise_err),
                pre |-> fs.files[WritePath]] :
                 fs \in WriteDirs, data \in Data \cup {NoneData},
                 modified \in {2, 3}, raise_err \in BOOLEAN}

WriteStatement(fail) ==
    /\ WriteRunning(wr.w)
    /\ wr' = [wr EXCEPT !.w = WriteStep(wr.w, fail)]
    /\ UNCHANGED <<engine_vars, diff>>

NextWrite == \E fail \in BOOLEAN : WriteStatement(fail)

SpecWrite == InitWrite /\ [][NextWrite]_vars

----------------------------------------------------------------------------
(* SpecWriteFault: write_data as in SpecWrite, next to an engine whose      *)
(* caller makes snapshot sync_data calls that a local write failure may hit *)

InitWriteFault ==
    /\ rnodes \in InitRemotes
    /\ clock = 0
    /\ queue = <<>>
    /\ session = "CONNECTED"
    /\ eng \in {EngineInit(fs) : fs \in InitMirrors}
    /\ last = EnvLog("init")
    /\ nsync = 0
    /\ nfaults = 0
    /\ call = NoCall
    /\ threads = NoThreads
    /\ cancelled = {}
    /\ rparent = TRUE
    /\ initd = NodeIdle
    /\ diff = IdleDiff
    /\ wr \in {[w |-> WriteInit(fs, WritePath, data, modified, raise_err),
                pre |-> fs.files[WritePath]] :
                 fs \in WriteDirs, data \in Data \cup {NoneData},
                 modified \in {2, 3}, raise_err \in BOOLEAN}

NextWriteFault ==
    \/ \E fail \in BOOLEAN : WriteStatement(fail)
    \/ \E p \in ChildPaths, inj \in Injections : SyncData(p, inj)

SpecWriteFault == InitWriteFault /\ [][NextWriteFault]_vars

----------------------------------------------------------------------------
(* Claims on write_data (SpecWrite) *)

WriteDest == wr.w.fs.files[wr.w.fpath]

\* the file a completed write_data leaves: the data (nothing for None or the
\* empty blob), the caller's modification time, mode 0644
NewFile == File(IF Truthy(wr.w.data) THEN wr.w.data ELSE "", wr.w.modified, 420)

\* C2: at every statement of write_data, and after a failure of any of them,
\* the destination holds its pre-call content or the complete new file, never
\* a partial one; it changes only at the rename
C2_AtomicWrite ==
    /\ WriteDest \in {wr.pre, NewFile}
    /\ WriteDest.data # Partial
    /\ wr.w.pc \in WriteSteps \cup {"raised", "swallowed"} => WriteDest = wr.pre
    /\ wr.w.pc = "done" => WriteDest = NewFile

\* a write that failed half way, over an existing destination
C2_Witness ==
    /\ wr.w.pc = "raised"
    /\ wr.pre.exists
    /\ wr.w.temp # <<>>
    /\ wr.w.fs.files[wr.w.temp].data = Partial
    /\ WriteDest = wr.pre

----------------------------------------------------------------------------
(* Claims on _filter_children_actions (SpecDiff) *)

DiffRemote == SeqSet(diff.sorted_children)
DiffLocal == SeqSet(diff.sorted_filenames)

\* C7: the loop runs at most len(remote) + len(local) iterations, and when it
\* ends add = remote \ local, remove = local \ remote and common = their
\* intersection, each sorted; the three are disjoint and cover every name
C7_DiffCorrect ==
    /\ diff.iters <= Len(diff.sorted_children) + Len(diff.sorted_filenames)
    /\ ~DiffRunning(diff) =>
         /\ diff.add = Sorted(DiffRemote \ DiffLocal)
         /\ diff.remove = Sorted(DiffLocal \ DiffRemote)
         /\ diff.common = Sorted(DiffRemote \cap DiffLocal)
         /\ SeqSet(diff.add) \cap SeqSet(diff.remove) = {}
         /\ SeqSet(diff.add) \cap SeqSet(diff.common) = {}
         /\ SeqSet(diff.remove) \cap SeqSet(diff.common) = {}
         /\ SeqSet(diff.add) \cup SeqSet(diff.remove) \cup SeqSet(diff.common)
              = DiffRemote \cup DiffLocal
         /\ Len(diff.add) + Len(diff.remove) + Len(diff.common)
              = Cardinality(DiffRemote \cup DiffLocal)
         /\ (diff.sorted_children = <<"a", "c", "e">>
               /\ diff.sorted_filenames = <<"b", "c", "d">>)
              => /\ diff.add = <<"a", "e">>
                 /\ diff.remove = <<"b", "d">>
                 /\ diff.common = <<"c">>

\* the example of the claim, the loop finished
C7_Witness ==
    /\ ~DiffRunning(diff)
    /\ diff.sorted_children = <<"a", "c", "e">>
    /\ diff.sorted_filenames = <<"b", "c", "d">>
    /\ diff.add = <<"a", "e">>
    /\ diff.iters = 5

----------------------------------------------------------------------------
(* Claims on the engine (Spec, SpecSession) *)

MirrorOf(zkpath) == eng.fs.files[fpath(zkpath)]

Quiescent == eng.alive /\ queue = <<>>

\* C1: at quiescence (no callback pending), every path of the watch set has a
\* mirror file, and the file holds the data the remote node holds now
C1_QuiescentMirror ==
    Quiescent =>
      \A p \in eng.watches :
         /\ MirrorOf(p).exists
         /\ rnodes[p].exists
         /\ MirrorOf(p).data = rnodes[p].data

C1_Witness ==
    /\ Quiescent
    /\ last.op = "deliver_data"
    /\ last.ev = "CHANGED"
    /\ \E p \in eng.watches :
          /\ rnodes[p].mzxid > 0
          /\ MirrorOf(p) = File(rnodes[p].data, rnodes[p].last_modified, 420)

Host1 == join_zookeeper_path(ZkPath, "host1")
Host2 == join_zookeeper_path(ZkPath, "host2")

\* C3: from an empty mirror and a remote side holding host1 = "A" and
\* host2 = "B", one sync_children call leaves the files host1 = "A" and
\* host2 = "B"; a children callback that lists only host2 leaves no file for
\* host1, and leaves the file of host2 as it was ("B"), without writing it
C3_EndToEnd ==
    [][/\ ( /\ last'.op = "sync_children" /\ nsync' = nsync + 1
            /\ eng.fs = EmptyFs
            /\ rnodes[Host1].exists /\ rnodes[Host1].data = "A"
            /\ rnodes[Host2].exists /\ rnodes[Host2].data = "B" )
          => /\ MirrorOf(Host1)' = File("A", rnodes[Host1].last_modified, 420)
             /\ MirrorOf(Host2)' = File("B", rnodes[Host2].last_modified, 420)
       /\ ( /\ last'.op = "deliver_children" /\ Len(queue') < Len(queue)
            /\ ~rnodes[Host1].exists /\ rnodes[Host2].exists
            /\ MirrorOf(Host2).exists /\ MirrorOf(Host2).data = "B" )
          => /\ ~MirrorOf(Host1)'.exists
             /\ MirrorOf(Host2)' = MirrorOf(Host2)
             /\ \A k \in 1..Len(last'.muts) : last'.muts[k].path # fpath(Host2)
      ]_vars

C3_Witness ==
    /\ last.op = "deliver_children"
    /\ last.muts = <<Mut("rm", fpath(Host1))>>
    /\ nsync = 1 /\ clock = 1
    /\ ~rnodes[Host1].exists
    /\ ~MirrorOf(Host1).exists
    /\ MirrorOf(Host2) = File("B", 0, 420)

\* the step registered a data watcher on a path whose node does not exist:
\* the watcher's first fetch finds no node and calls (None, None, None)
FirstCallOnAbsent(p) ==
    /\ last.op = "sync_data" /\ last.path = p
    /\ last.cbs = <<Call("data", p)>>
    /\ ~rnodes[p].exists

Pending(kind, id) == \E k \in 1..Len(queue) : queue[k].kind = kind /\ queue[k].id = id

\* C4: a data callback called with (no data, no stat, no event) removes the
\* mirror file of the path, takes the path out of the watch set and returns
\* False; the watcher is then stopped and nothing is pending for it, so it
\* calls back no more
C4_AbsentDeletes ==
    /\ \A p \in ChildPaths :
         FirstCallOnAbsent(p) =>
           /\ ~MirrorOf(p).exists
           /\ p \notin eng.watches
           /\ last.ret = FALSE
           /\ ~last.exited /\ last.exc = NoExc
           /\ eng.dws[Len(eng.dws)].path = p
           /\ eng.dws[Len(eng.dws)].stopped
    /\ \A i \in 1..Len(eng.dws) : eng.dws[i].stopped => ~Pending("data", i)

C4_Witness ==
    /\ FirstCallOnAbsent(Host1)
    /\ last.muts = <<Mut("rm", fpath(Host1))>>
    /\ eng.dws[Len(eng.dws)].stopped
    /\ Host1 \notin eng.watches

DoneExists == eng.fs.files[DoneFile(fpath(ZkPath))].exists

\* C5: a sync_children call made while the done file of the path exists
\* returns without a call to the coordination service (no get, get_children,
\* exists, DataWatch or ChildrenWatch), without calling on_add or on_del, and
\* with the watch set and the processed-once set as they were
C5_DoneShortCircuit ==
    [][( /\ last'.op = "sync_children" /\ nsync' = nsync + 1
         /\ DoneExists )
       => /\ last'.calls = <<>>
          /\ last'.cbs = <<>>
          /\ last'.exc = NoExc /\ ~last'.exited
          /\ eng'.watches = eng.watches
          /\ eng'.processed_once = eng.processed_once
          /\ eng'.dws = eng.dws /\ eng'.cws = eng.cws
      ]_vars

C5_Witness ==
    /\ last.op = "sync_children"
    /\ nsync = 2
    /\ DoneExists
    /\ last.calls = <<>> /\ last.cbs = <<>>
    /\ eng.processed_once = {ZkPath}

\* C6: the second of two sync_children calls with the same arguments, the
\* remote side unchanged in between, mutates nothing in the filesystem,
\* whatever the ready flag, watch_data and the two predicates
C6_SecondCallMutatesNothing ==
    (last.op = "sync_children" /\ nsync = 2) => last.muts = <<>>

\* C8: mark_ready sets the ready flag and touches .modified, with or without
\* any other mutation; while the flag is not set no call and no callback
\* touches .modified; the flag, once set, stays set while the process lives
C8_ReadinessMarker ==
    [][/\ last'.op = "mark_ready" /\ last' # last
          => /\ eng'.ready
             /\ last'.muts = <<Mut("touch", ModifiedFile)>>
             /\ eng'.fs.files[ModifiedFile] = File("", Now, 420)
       /\ ~eng.ready /\ last'.op # "mark_ready"
          => /\ eng'.fs.files[ModifiedFile] = eng.fs.files[ModifiedFile]
             /\ \A k \in 1..Len(last'.muts) : last'.muts[k].path # ModifiedFile
       /\ eng.ready /\ eng'.alive => eng'.ready
      ]_vars

C8_Witness ==
    /\ last = Log("mark_ready", <<>>, NoEvent, mark_ready(Begin(EngineInit(EmptyFs), NoInj)))
    /\ eng.ready
    /\ nsync = 0
    /\ eng.fs = touch(EmptyFs, ModifiedFile)

\* what the second call does mutate: nothing while the ready flag is not
\* set, and nothing but .modified once it is set
C6_OnlyTheMarker ==
    (last.op = "sync_children" /\ nsync = 2) =>
       /\ \A k \in 1..Len(last.muts) : last.muts[k] = Mut("touch", ModifiedFile)
       /\ ~eng.ready => last.muts = <<>>

C6_MarkerTouched ==
    /\ last.op = "sync_children" /\ nsync = 2
    /\ eng.ready
    /\ last.muts = <<Mut("touch", ModifiedFile)>>
    /\ last.calls # <<>>

\* C9: a live engine has the session listener registered since construction;
\* a session transition to LOST ends the process, and nothing changes the
\* mirror of an ended process; a transition to another state (SUSPENDED,
\* CONNECTED) leaves the process and its engine as they were
C9_SessionLost ==
    [][/\ eng.alive => "exit_on_lost" \in eng.listeners
       /\ eng'.alive => "exit_on_lost" \in eng'.listeners
       /\ (session # "LOST" /\ session' = "LOST") => ~eng'.alive /\ last'.exited
       /\ ~eng.alive => eng'.fs = eng.fs
       /\ (session' # session /\ session' # "LOST") => eng' = eng
      ]_vars

C9_Witness ==
    /\ session = "LOST"
    /\ last.op = "session" /\ last.exited
    /\ ~eng.alive
    /\ MirrorOf(Host1).exists
    /\ nsync = 1

SubscriptionCallbackRan ==
    \E k \in 1..Len(last.cbs) : last.cbs[k].name \in {"data", "children"}

\* C10: an exception that leaves a data or a children subscription callback
\* (raised by on_add, on_del or a local write inside it) ends the process:
\* no step in which such a callback ran ends with an exception and the
\* process alive
C10_CallbackFaultExits ==
    /\ (last.op \in {"deliver_data", "deliver_children"} /\ last.exc # NoExc)
         => last.exited /\ ~eng.alive
    /\ (SubscriptionCallbackRan /\ last.exc # NoExc) => last.exited /\ ~eng.alive

C10_Witness ==
    /\ last.op = "deliver_data"
    /\ last.exc = "OSError"
    /\ last.exited
    /\ ~eng.alive

\* a data callback ran in this delivery and found the node gone
DeliveredGone(p) ==
    /\ last.op = "deliver_data" /\ last.path = p
    /\ last.cbs # <<>>
    /\ ~rnodes[p].exists

\* C11: a data delivery that finds the node gone, whatever its event, removes
\* the mirror file, takes the path out of the watch set and returns False,
\* with no exception and the process alive
C11_RemoteGoneRecovered ==
    \A p \in ChildPaths :
       DeliveredGone(p) =>
         /\ last.exc = NoExc
         /\ ~last.exited /\ eng.alive
         /\ ~MirrorOf(p).exists
         /\ p \notin eng.watches
         /\ last.ret = FALSE

\* the delivery of a CHANGED event after the node was deleted ends the process
C11_GoneAfterChange ==
    /\ DeliveredGone(Host1)
    /\ last.ev = "CHANGED"
    /\ last.exc = "AttributeError"
    /\ last.exited /\ ~eng.alive
    /\ MirrorOf(Host1).exists

\* what does hold: a delivery with the DELETED event recovers locally
C11_DeletedRecovered ==
    \A p \in ChildPaths :
       (DeliveredGone(p) /\ last.ev = "DELETED") =>
         /\ last.exc = NoExc /\ ~last.exited
         /\ ~MirrorOf(p).exists
         /\ p \notin eng.watches
         /\ last.ret = FALSE

\* C12: when os.rename fails, write_data raises to its caller if raise_err is
\* true and returns normally if it is false, the destination as it was before
\* the call either way; a write failure in a snapshot sync_data goes to the
\* caller of sync_data, the process stays alive and the mirror file is as it was
C12_RenameFailure ==
    [][/\ (wr.w.pc = "rename" /\ wr'.w.pc \notin {"rename", "done"})
          => /\ wr.w.raise_err => wr'.w.pc = "raised" /\ wr'.w.exc = "OSError"
             /\ ~wr.w.raise_err => wr'.w.pc = "swallowed" /\ wr'.w.exc = NoExc
             /\ wr'.w.fs.files[wr.w.fpath] = wr.pre
       /\ (last'.op = "sync_data" /\ nfaults' = nfaults + 1)
          => /\ last'.exc = "OSError"
             /\ ~last'.exited /\ eng'.alive
             /\ last'.cbs = <<>>
             /\ eng'.fs.files[fpath(last'.path)] = eng.fs.files[fpath(last'.path)]
      ]_vars

C12_Witness ==
    /\ wr.w.pc = "swallowed" /\ ~wr.w.raise_err /\ wr.w.exc = NoExc
    /\ wr.pre.exists /\ WriteDest = wr.pre
    /\ last.op = "sync_data" /\ last.path = Host1
    /\ last.exc = "OSError" /\ nfaults = 1
    /\ eng.alive
    /\ MirrorOf(Host1) = File("B", 0, 420)

\* C13: removing a mirror entry that is already gone is a silent no-op. A
\* data callback with the DELETED event on a path that the children
\* reconciliation already removed raises nothing and leaves the mirror
\* entries and the watch set as they were; so does a children callback on a
\* child that the data callback already removed
C13_DeleteTwice ==
    [][\A p \in ChildPaths :
        /\ ( /\ last'.op = "deliver_data" /\ last'.path = p /\ last'.ev = "DELETED"
             /\ Len(queue') < Len(queue) /\ last'.cbs # <<>>
             /\ ~MirrorOf(p).exists /\ p \notin eng.watches )
           => /\ last'.exc = NoExc /\ ~last'.exited
              /\ last'.ret = FALSE
              /\ \A q \in ChildPaths : MirrorOf(q)' = MirrorOf(q)
              /\ eng'.watches = eng.watches
        /\ ( /\ last'.op = "deliver_children" /\ Len(queue') < Len(queue)
             /\ ~rnodes[p].exists
             /\ ~MirrorOf(p).exists /\ p \notin eng.watches )
           => /\ last'.exc = NoExc /\ ~last'.exited
              /\ ~MirrorOf(p)'.exists
              /\ p \notin eng'.watches
      ]_vars

\* the data callback comes second: the children reconciliation removed the
\* file, and the DELETED delivery finds nothing to remove
C13_Witness ==
    /\ last.op = "deliver_data" /\ last.path = Host1 /\ last.ev = "DELETED"
    /\ last.cbs = <<Call("data", Host1)>>
    /\ last.muts = <<>>
    /\ last.exc = NoExc /\ last.ret = FALSE
    /\ ~MirrorOf(Host1).exists
    /\ eng.alive

\* C14: no two operations on the watch set and the processed-once set are in
\* progress at once: while the caller's thread is in sync_children the
\* client's thread is in no callback, and the other way round
C14_Serialized ==
    threads.caller = "idle" \/ threads.client = "idle"

\* the caller is in sync_children while a children callback of a watcher the
\* first call registered is running
C14_Overlap ==
    /\ threads.caller = "sync_children"
    /\ threads.client = "callback"
    /\ queue # <<>> /\ Head(queue).kind = "children"
    /\ eng.processed_once = {ZkPath}

----------------------------------------------------------------------------
(* Claims on the watch decision (SpecPred) *)

\* need_watch_predicate is given and says yes for the path
NeedSaysYes == call.need = "yes"

\* cont_watch_predicate is given and says yes for the children listed now
ContSaysYes ==
    call.cont # "none" /\ ContWatch(call.cont, ZkPath, Sorted(get_children(ZkPath)))

LiveChildrenWatch(zkpath) ==
    \E j \in 1..Len(eng.cws) : eng.cws[j].path = zkpath /\ ~eng.cws[j].stopped

\* the children callback of the path ran in the last step
ChildrenCallbackRan ==
    /\ last.op \in {"sync_children", "deliver_children"}
    /\ \E k \in 1..Len(last.cbs) : last.cbs[k] = Call("children", ZkPath)
    /\ eng.alive

\* C15: after a children callback, the subscription of the path is live
\* whenever need_watch_predicate says yes or cont_watch_predicate says yes
\* for the listing
C15_KeptIfEitherSaysYes ==
    (ChildrenCallbackRan /\ (NeedSaysYes \/ ContSaysYes)) => LiveChildrenWatch(ZkPath)

\* need says yes, cont says no: the watcher is stopped at its first callback
C15_DroppedThoughNeeded ==
    /\ ChildrenCallbackRan
    /\ call.need = "yes" /\ call.cont = "no"
    /\ last.op = "sync_children"
    /\ eng.cws # <<>>
    /\ ~LiveChildrenWatch(ZkPath)

\* C16: where sync_children has reconciled the path and no children
\* subscription of the path is live (none installed, or each one dropped by
\* a False return), the done file is in the mirror directory of the path
C16_DoneWhenUnwatched ==
    (eng.alive /\ ZkPath \in eng.processed_once /\ ~LiveChildrenWatch(ZkPath))
      => DoneExists

\* a subscription installed by the one-shot branch and dropped later, when
\* cont_watch_predicate said no at a delivery: no done file
C16_DroppedLater ==
    /\ last.op = "deliver_children" /\ last.ret = FALSE
    /\ call.need = "no" /\ call.cont = "nonempty"
    /\ eng.alive /\ ZkPath \in eng.processed_once
    /\ eng.cws # <<>> /\ ~LiveChildrenWatch(ZkPath)
    /\ ~DoneExists

\* what does hold: the done file is there after a one-shot reconciliation
\* in which cont_watch_predicate said no
C16_DoneAfterOneShot ==
    ( /\ last.op = "sync_children" /\ last.calls # <<>> /\ last.exc = NoExc
      /\ call.need = "no" /\ call.cont # "none" /\ ~ContSaysYes )
      => DoneExists

InstalledChildrenWatch ==
    \E k \in 1..Len(last.calls) : last.calls[k] = Call("ChildrenWatch", ZkPath)

\* the listings sync_children makes itself (a ChildrenWatch lists on its own)
OwnListings ==
    Cardinality({k \in 1..Len(last.calls) :
                    /\ last.calls[k] = Call("get_children", ZkPath)
                    /\ \A m \in 1..k : last.calls[m] # Call("ChildrenWatch", ZkPath)})

\* C17: a sync_children call whose need_watch_predicate says no lists the
\* remote children once, and installs a children subscription only if a
\* cont_watch_predicate is given and says yes for that listing; with none
\* given it installs no subscription
C17_OneShotListing ==
    (last.op = "sync_children" /\ call.need = "no" /\ last.calls # <<>>)
      => /\ OwnListings = 1
         /\ InstalledChildrenWatch => ContSaysYes
         /\ call.cont = "none" => ~InstalledChildrenWatch /\ eng.cws = <<>>

\* no cont_watch_predicate: the reconciliation returns True and the
\* subscription is installed
C17_InstalledWithoutCont ==
    /\ last.op = "sync_children" /\ call.need = "no" /\ call.cont = "none"
    /\ OwnListings = 1
    /\ InstalledChildrenWatch
    /\ LiveChildrenWatch(ZkPath)
    /\ ~DoneExists

\* what does hold: one listing, and a subscription exactly when the
\* reconciliation returned True (cont_watch_predicate said yes, or none given)
C17_ListingAndReturn ==
    (last.op = "sync_children" /\ call.need = "no" /\ last.calls # <<>>)
      => /\ OwnListings = 1
         /\ InstalledChildrenWatch <=> (call.cont = "none" \/ ContSaysYes)

----------------------------------------------------------------------------
(* Claims on the watch set and the subscriptions (SpecSession) *)

LiveDataWatch(e, zkpath) ==
    \E i \in 1..Len(e.dws) : e.dws[i].path = zkpath /\ ~e.dws[i].stopped

\* a data callback ran in the step and the process lives
DataDelivered(p) ==
    /\ last'.op = "deliver_data" /\ last'.path = p
    /\ Len(queue') < Len(queue)
    /\ last'.cbs # <<>>
    /\ eng'.alive

\* C18: under the default callbacks, a path of the watch set has a live data
\* subscription, and that subscription renews at a delivery that carries
\* data; a data callback returns True exactly when the path is in the watch
\* set as it returns, so the step in which it returns False is the step in
\* which the path is out of the watch set
C18_WatchSetMembership ==
    [][\A p \in ChildPaths :
        /\ (eng'.alive /\ p \in eng'.watches) => LiveDataWatch(eng', p)
        /\ DataDelivered(p) => (last'.ret <=> p \in eng'.watches)
        /\ (DataDelivered(p) /\ rnodes[p].exists /\ p \in eng.watches)
             => last'.ret /\ p \in eng'.watches
      ]_vars

\* the three parts apart
C18_HasLiveWatch ==
    \A p \in ChildPaths : (eng.alive /\ p \in eng.watches) => LiveDataWatch(eng, p)

C18_ReturnIsMembership ==
    [][\A p \in ChildPaths : DataDelivered(p) => (last'.ret <=> p \in eng'.watches)]_vars

\* a delivery that carries the data of the re-created node, with the DELETED
\* event of the node it replaced: the path was in the watch set, and the
\* subscription does not renew
C18_NotRenewedWithData ==
    /\ last.op = "deliver_data" /\ last.path = Host1 /\ last.ev = "DELETED"
    /\ rnodes[Host1].exists
    /\ last.ret = FALSE /\ last.exc = NoExc
    /\ eng.alive
    /\ Host1 \notin eng.watches
    /\ ~LiveDataWatch(eng, Host1)
    /\ ~MirrorOf(Host1).exists

LiveDataWatchers(zkpath) ==
    {i \in 1..Len(eng.dws) : eng.dws[i].path = zkpath /\ ~eng.dws[i].stopped}

LiveChildrenWatchers(zkpath) ==
    {j \in 1..Len(eng.cws) : eng.cws[j].path = zkpath /\ ~eng.cws[j].stopped}

\* C19: a path has at most one live data subscription and at most one live
\* children subscription; sync_data and sync_children on a path that has
\* one install no other
C19_AtMostOneSubscription ==
    /\ \A p \in ChildPaths : Cardinality(LiveDataWatchers(p)) <= 1
    /\ Cardinality(LiveChildrenWatchers(ZkPath)) <= 1

\* the second sync_children call registers a second children watcher, and
\* sync_data on a watched path a second data watcher
C19_TwoOfEach ==
    /\ eng.alive
    /\ nsync = 2
    /\ last.op = "sync_data" /\ last.path = Host1
    /\ LiveDataWatchers(Host1) = {1, 3}
    /\ Cardinality(LiveChildrenWatchers(ZkPath)) = 1

C19_TwoChildrenWatchers ==
    /\ eng.alive
    /\ last.op = "sync_children"
    /\ LiveChildrenWatchers(ZkPath) = {1, 2}

----------------------------------------------------------------------------
(* Claims on the mirror files (SpecData) *)

Wrote(p) ==
    /\ last.op \in {"sync_data", "sync_children", "deliver_data", "deliver_children"}
    /\ \E k \in 1..Len(last.muts) : last.muts[k] = Mut("write", fpath(p))

DataCallbackStep(p) ==
    /\ \/ last'.op = "deliver_data" /\ Len(queue') < Len(queue)
       \/ last'.op = "sync_data" /\ nsync' = nsync + 1
    /\ last'.path = p
    /\ last'.cbs = <<Call("data", p)>>
    /\ eng'.alive

\* C21: a data delivery removes the mirror file and takes the path out of
\* the watch set only when it carries no data and its event is none or
\* DELETED; a delivery that carries data, whatever its event, writes that
\* data to the mirror file and leaves the path in or out of the watch set as
\* it was
C21_DeleteOnlyWhenAbsent ==
    [][\A p \in ChildPaths :
        DataCallbackStep(p) =>
          /\ rnodes[p].exists
               => /\ MirrorOf(p)' = File(rnodes[p].data, rnodes[p].last_modified, 420)
                  /\ (p \in eng'.watches) <=> (p \in eng.watches)
          /\ (p \in eng.watches /\ p \notin eng'.watches)
               => ~rnodes[p].exists /\ last'.ev \in {NoEvent, "DELETED"}
          /\ (MirrorOf(p).exists /\ ~MirrorOf(p)'.exists)
               => ~rnodes[p].exists /\ last'.ev \in {NoEvent, "DELETED"}
      ]_vars

\* the node was deleted and created again before the client dispatched the
\* DELETED event: the delivery carries the new data, and the callback
\* removes the file and the path from the watch set
C21_DeletedWithData ==
    /\ last.op = "deliver_data" /\ last.path = Host1 /\ last.ev = "DELETED"
    /\ last.cbs = <<Call("data", Host1)>>
    /\ last.muts = <<Mut("rm", fpath(Host1))>>
    /\ rnodes[Host1].exists /\ rnodes[Host1].mzxid = 2
    /\ Host1 \notin eng.watches
    /\ eng.alive

\* what does hold: a delivery that carries data with no event or with an
\* event other than DELETED writes it and leaves the watch set alone
C21_DataWrittenUnlessDeleted ==
    [][\A p \in ChildPaths :
        (DataCallbackStep(p) /\ rnodes[p].exists /\ last'.ev # "DELETED")
          => /\ MirrorOf(p)' = File(rnodes[p].data, rnodes[p].last_modified, 420)
             /\ (p \in eng'.watches) <=> (p \in eng.watches)
      ]_vars

\* the caller's sync_data(p) ran in the step
SyncDataStep(p) ==
    last'.op = "sync_data" /\ last'.path = p /\ nsync' = nsync + 1

Writes(muts, fp) == {k \in 1..Len(muts) : muts[k] = Mut("write", fp)}

\* C22: sync_data on a path that is not in the watch set makes one call to
\* the coordination service, a get of the path, registers no watcher and
\* leaves the watch set and the processed-once set as they were; when it
\* returns it has written the mirror file once, with the data fetched, and
\* mutated nothing else but .modified; no sync_data call adds a path to the
\* watch set
C22_SnapshotSync ==
    [][\A p \in ChildPaths :
        /\ (SyncDataStep(p) /\ p \notin eng.watches)
             => /\ last'.calls = <<Call("get", p)>>
                /\ last'.cbs = <<>>
                /\ eng'.dws = eng.dws /\ eng'.cws = eng.cws
                /\ eng'.watches = eng.watches
                /\ eng'.processed_once = eng.processed_once
                /\ eng'.alive
                /\ last'.exc = NoExc
                     => /\ Cardinality(Writes(last'.muts, fpath(p))) = 1
                        /\ MirrorOf(p)' = File(rnodes[p].data, rnodes[p].last_modified, 420)
                        /\ \A k \in 1..Len(last'.muts) :
                              last'.muts[k] \in {Mut("write", fpath(p)),
                                                 Mut("touch", ModifiedFile)}
                        /\ \A q \in ChildPaths \ {p} : MirrorOf(q)' = MirrorOf(q)
        /\ SyncDataStep(p) => eng'.watches \subseteq eng.watches
      ]_vars

\* a snapshot of host1 next to a watched host2
C22_Witness ==
    /\ last.op = "sync_data" /\ last.path = Host1
    /\ last.calls = <<Call("get", Host1)>>
    /\ last.exc = NoExc
    /\ Host1 \notin eng.watches
    /\ eng.watches = {Host2}
    /\ rnodes[Host1].mzxid > 0
    /\ MirrorOf(Host1) = File(rnodes[Host1].data, rnodes[Host1].last_modified, 420)

----------------------------------------------------------------------------
(* Claims on the children reconciliation (Spec, SpecSession, SpecPred) *)

\* one children reconciliation of the path ran in the step, by a delivery
\* to a children watcher or inside the caller's sync_children
ReconcileStep ==
    /\ \/ last'.op = "deliver_children" /\ Len(queue') < Len(queue)
       \/ last'.op = "sync_children" /\ nsync' = nsync + 1
    /\ Cardinality({k \in 1..Len(last'.calls) :
                      last'.calls[k] = Call("get_children", ZkPath)}) = 1

\* the three lists of that reconciliation: the listing is the remote
\* children (unchanged by the step), the file names those before the step
Classified == FilterChildrenActions(Sorted(get_children(ZkPath)), Sorted(LocalNames(eng, ZkPath)))

CallsOf(cbs, name, zknode) == {k \in 1..Len(cbs) : cbs[k] = Call(name, zknode)}

\* C23: in a children reconciliation that completes, on_del is called once
\* for every name classified remove, with the child's remote path, and for
\* no other; the child is not in the watch set afterwards and, on_del being
\* the default, its mirror file is gone. (Of the caller's own on_del the
\* model has one that raises, so a reconciliation that completes with a
\* remove list ran the default.) on_del is never called twice for a name
C23_RemoveCallsOnDel ==
    [][ReconcileStep =>
         \A n \in Children :
            LET zknode == join_zookeeper_path(ZkPath, n)
                ncalls == Cardinality(CallsOf(last'.cbs, "on_del", zknode))
            IN /\ ncalls <= 1
               /\ n \notin SeqSet(Classified.remove) => ncalls = 0
               /\ (n \in SeqSet(Classified.remove) /\ last'.exc = NoExc)
                    => /\ ncalls = 1
                       /\ zknode \notin eng'.watches
                       /\ ~MirrorOf(zknode)'.exists
      ]_vars

\* the second call removes a file whose child is gone
C23_Witness ==
    /\ last.op = "sync_children" /\ nsync = 2
    /\ last.exc = NoExc
    /\ last.muts = <<Mut("rm", fpath(Host1))>>
    /\ CallsOf(last.cbs, "on_del", Host1) # {}
    /\ ~rnodes[Host1].exists
    /\ ~MirrorOf(Host1).exists
    /\ Host1 \notin eng.watches

\* C24: a children reconciliation that completes handles the common
\* children only if the parent is not yet in the processed-once set: it
\* then calls on_add once for each of them, adds each to the watch set
\* exactly if watch_data is set (without watch_data the child is in or out
\* of the watch set as before), and the parent is in the processed-once set
\* afterwards. A reconciliation of a parent already in the set, run by a
\* watch that fired again or by another sync_children call, calls on_add for
\* no common child and leaves each in or out of the watch set as it was
C24_CommonOnlyOnce ==
    [][(ReconcileStep /\ last'.exc = NoExc) =>
         /\ ZkPath \in eng'.processed_once
         /\ \A n \in SeqSet(Classified.common) :
              LET zknode == join_zookeeper_path(ZkPath, n)
                  ncalls == Cardinality(CallsOf(last'.cbs, "on_add", zknode))
              IN /\ ZkPath \notin eng.processed_once
                      => /\ ncalls = 1
                         /\ call.watch_data => zknode \in eng'.watches
                         /\ ~call.watch_data
                              => (zknode \in eng'.watches <=> zknode \in eng.watches)
                 /\ ZkPath \in eng.processed_once
                      => /\ ncalls = 0
                         /\ zknode \in eng'.watches <=> zknode \in eng.watches
                         /\ MirrorOf(zknode)' = MirrorOf(zknode)
      ]_vars

\* a children watch fires again after host1 was created: host1 is added,
\* host2 is common and on_add is not called for it
C24_Witness ==
    /\ last.op = "deliver_children" /\ last.exc = NoExc
    /\ ZkPath \in eng.processed_once
    /\ rnodes[Host2].exists /\ MirrorOf(Host2).exists
    /\ CallsOf(last.cbs, "on_add", Host2) = {}
    /\ CallsOf(last.cbs, "on_add", Host1) # {}
    /\ call.watch_data
    /\ Host1 \in eng.watches

\* C25: a children reconciliation that completes, the first of the parent
\* or a later one, calls on_add once for every name classified add, with
\* the child's remote path, and for no name that is neither add nor common.
\* With watch_data the child is in the watch set when on_add runs (the
\* default on_add registers a data watch for it rather than taking a
\* snapshot) and afterwards; without watch_data on_add takes a snapshot and
\* the watch set gains no path
C25_AddCallsOnAdd ==
    [][(ReconcileStep /\ last'.exc = NoExc) =>
         /\ \A n \in Children :
              LET zknode == join_zookeeper_path(ZkPath, n)
                  ncalls == Cardinality(CallsOf(last'.cbs, "on_add", zknode))
                  nwatch == Cardinality(CallsOf(last'.calls, "DataWatch", zknode))
              IN /\ ncalls <= 1
                 /\ n \notin SeqSet(Classified.add) \cup SeqSet(Classified.common)
                      => ncalls = 0
                 /\ n \in SeqSet(Classified.add)
                      => /\ ncalls = 1
                         /\ call.watch_data => nwatch = 1 /\ zknode \in eng'.watches
                         /\ ~call.watch_data
                              => /\ nwatch = 0
                                 /\ Cardinality(CallsOf(last'.calls, "get", zknode)) = 1
         /\ ~call.watch_data => eng'.watches \subseteq eng.watches
      ]_vars

\* a later reconciliation, run by the children watch after host2 was
\* created: host2 is added and watched
C25_Witness ==
    /\ last.op = "deliver_children" /\ last.exc = NoExc
    /\ call.watch_data
    /\ rnodes[Host2].mzxid > 0
    /\ last.cbs = <<Call("children", ZkPath), Call("on_add", Host2), Call("data", Host2)>>
    /\ CallsOf(last.calls, "DataWatch", Host2) # {}
    /\ Host2 \in eng.watches
    /\ MirrorOf(Host2) = File(rnodes[Host2].data, rnodes[Host2].last_modified, 420)

----------------------------------------------------------------------------
(* Claims on cancellation (SpecCancel) *)

\* C26: a data watcher that was live when its path left the watch set runs
\* at most one more callback: the callback of its next delivery returns
\* False and the watcher is stopped, whatever children reconciliations of
\* the parent ran in between
C26_CooperativeCancel ==
    [][\A i \in cancelled :
         ( /\ queue # <<>> /\ Head(queue).kind = "data" /\ Head(queue).id = i
           /\ last'.op = "deliver_data" /\ Len(queue') < Len(queue)
           /\ last'.cbs # <<>>
           /\ eng'.alive )
         => /\ last'.ret = FALSE
            /\ eng'.dws[i].stopped
      ]_vars

\* the first watcher of host1 has a CHANGED event pending when a
\* sync_children call takes the deleted host1 out of the watch set; host1
\* is created again and the next call puts it back, with a second watcher;
\* the first then runs its callback, returns True and stays
C26_Revived ==
    /\ last.op = "deliver_data" /\ last.path = CancelPath /\ last.ev = "CHANGED"
    /\ last.ret = TRUE /\ last.exc = NoExc
    /\ 1 \in cancelled
    /\ ~eng.dws[1].stopped /\ eng.dws[1].ever_called /\ eng.dws[1].armed
    /\ Cardinality(LiveDataWatchers(CancelPath)) = 2
    /\ CancelPath \in eng.watches

\* what does hold: while the path stays out of the watch set, the next
\* callback of such a watcher stops it
C26_StoppedWhileOut ==
    [][\A i \in cancelled :
         ( /\ queue # <<>> /\ Head(queue).kind = "data" /\ Head(queue).id = i
           /\ last'.op = "deliver_data" /\ Len(queue') < Len(queue)
           /\ last'.cbs # <<>>
           /\ eng'.alive
           /\ eng.dws[i].path \notin eng.watches )
         => /\ last'.ret = FALSE
            /\ eng'.dws[i].stopped
      ]_vars

----------------------------------------------------------------------------
(* Claims on the .modified marker (Spec) *)

\* the mutations of mirror entries: a child's file written or removed, the
\* mirror directory made
EntryMuts(muts) ==
    {k \in 1..Len(muts) :
        \/ muts[k].op = "mkdir"
        \/ muts[k].op \in {"write", "rm"} /\ \E p \in ChildPaths : muts[k].path = fpath(p)}

MarkerTouches(muts) == {k \in 1..Len(muts) : muts[k] = Mut("touch", ModifiedFile)}

\* C27: with the ready flag set, an operation that mutated a mirror entry
\* and returned (a delivery to a data watch, a snapshot sync_data, a
\* children reconciliation run by a children watch or by sync_children
\* itself) touched .modified after the last of its mutations of mirror
\* entries
C27_MarkerAfterMutation ==
    ( /\ last.op \in {"sync_data", "sync_children", "deliver_data", "deliver_children"}
      /\ last.exc = NoExc /\ eng.alive
      /\ eng.ready )
      => \A k \in EntryMuts(last.muts) :
            \E m \in MarkerTouches(last.muts) : m > k

\* a children watch removes the file of a deleted child and touches the marker
C27_Witness ==
    /\ last.op = "deliver_children" /\ last.exc = NoExc
    /\ eng.ready
    /\ last.muts = <<Mut("rm", fpath(Host1)), Mut("touch", ModifiedFile)>>
    /\ ~MirrorOf(Host1).exists
    /\ eng.fs.files[ModifiedFile].exists

----------------------------------------------------------------------------
(* Claims on the processed-once set (Spec) *)

\* C28: while the process lives the processed-once set only grows; a step
\* that adds a path to it ran a children reconciliation of that path, and
\* sync_data, a delivery to a data watch and mark_ready leave it as it was
C28_ProcessedOnceGrows ==
    [][eng'.alive =>
         /\ eng.processed_once \subseteq eng'.processed_once
         /\ \A zkpath \in eng'.processed_once \ eng.processed_once :
               /\ last'.op \in {"sync_children", "deliver_children"}
               /\ last'.path = zkpath
               /\ CallsOf(last'.calls, "get_children", zkpath) # {}
         /\ last'.op \in {"sync_data", "deliver_data", "mark_ready", "remote", "session"}
               => eng'.processed_once = eng.processed_once
      ]_vars

\* the set holds the parent, and a delivery to a data watch left it so
C28_Witness ==
    /\ last.op = "deliver_data"
    /\ eng.alive
    /\ eng.processed_once = {ZkPath}
    /\ nsync = 2

----------------------------------------------------------------------------
(* Claims on convergence (SpecCancel) *)

\* a children watcher of the path is live and armed
ArmedChildrenWatch(zkpath) ==
    \E j \in 1..Len(eng.cws) :
       eng.cws[j].path = zkpath /\ ~eng.cws[j].stopped /\ eng.cws[j].armed

\* C29: the parent synchronised by sync_children(watch_data=True) with the
\* default callbacks and its children watcher armed, at quiescence the
\* files visible in the mirror directory are the remote children, and each
\* child is in the watch set and has a live data watcher
C29_WatchedDirConverges ==
    (Quiescent /\ nsync > 0 /\ ArmedChildrenWatch(ZkPath))
      => /\ LocalNames(eng, ZkPath) = get_children(ZkPath)
         /\ \A p \in ChildPaths :
               rnodes[p].exists => p \in eng.watches /\ LiveDataWatch(eng, p)

\* host1 was deleted and created again while the children watcher had an
\* event pending: the children callback sees host1 as common, the data
\* callback then gets the new data with the DELETED event and removes the
\* file; nothing is pending and host1 is neither mirrored nor watched
C29_LostChild ==
    /\ Quiescent /\ nsync = 1 /\ ArmedChildrenWatch(ZkPath)
    /\ last.op = "deliver_data" /\ last.path = Host1 /\ last.ev = "DELETED"
    /\ rnodes[Host1].exists
    /\ ~MirrorOf(Host1).exists
    /\ Host1 \notin eng.watches
    /\ ~LiveDataWatch(eng, Host1)

----------------------------------------------------------------------------
(* Claims on the done file (SpecPred) *)

\* C30: the done file of a path is in its mirror directory only while no
\* children watcher of the path is live
C30_DoneMeansUnwatched ==
    (eng.alive /\ DoneExists) => ~LiveChildrenWatch(ZkPath)

\* the first call installed a children watcher because the children were
\* there; they are deleted, and before the watcher's event is delivered a
\* second call with the same predicates lists no child and writes the done
\* file
C30_DoneWhileWatched ==
    /\ last.op = "sync_children" /\ nsync = 2
    /\ last.muts # <<>> /\ last.muts[Len(last.muts)] = Mut("touch", DoneFile(fpath(ZkPath)))
    /\ call.need = "no" /\ call.cont = "nonempty"
    /\ eng.alive /\ DoneExists
    /\ LiveChildrenWatch(ZkPath)
    /\ queue # <<>>

----------------------------------------------------------------------------
(* Claims on the listing of the mirror directory (Spec) *)

\* the files of the mirror directory whose names start with a dot: the done
\* file and the temporary files of write_data
DotFiles == {Append(fpath(ZkPath), n) : n \in DotNames \ {".modified"}}

\* C31: the done file and the temporary files write_data left behind are
\* not in the listing a reconciliation makes of the mirror directory: no
\* on_del and no on_add is called for such a name, none is removed, and
\* each stays as it is through every step of the engine
C31_DotFilesInvisible ==
    [][/\ LocalNames(eng, ZkPath) \cap DotNames = {}
       /\ \A k \in 1..Len(last'.cbs) : basename(last'.cbs[k].path) \notin DotNames
       /\ \A f \in DotFiles :
             /\ \A k \in 1..Len(last'.muts) : last'.muts[k] # Mut("rm", f)
             /\ eng.fs.files[f].exists => eng'.fs.files[f] = eng.fs.files[f]
      ]_vars

\* a reconciliation that removes the file of host1, next to a temporary
\* file a failed write left behind
C31_Witness ==
    /\ last.op = "sync_children" /\ last.exc = NoExc
    /\ CallsOf(last.cbs, "on_del", Host1) # {}
    /\ ~MirrorOf(Host1).exists
    /\ eng.fs.files[Append(fpath(ZkPath), TmpNames[1])].exists
    /\ nfaults = 1

\* a reconciliation run by a children watcher while the done file exists
C31_BesideDone ==
    /\ last.op = "deliver_children" /\ last.exc = NoExc
    /\ DoneExists
    /\ \E k \in 1..Len(last.muts) : last.muts[k].op \in {"rm", "write"}

----------------------------------------------------------------------------
(* Claims on a retried sync_children (Spec) *)

\* on_add did not complete for the child in the call logged in `last`: it
\* was not called for it, or it is the call the exception came out of
OnAddNotCompleted(zknode) ==
    \/ CallsOf(last.cbs, "on_add", zknode) = {}
    \/ /\ last.exc # NoExc
       /\ \A k \in 1..Len(last.cbs) :
             last.cbs[k].name = "on_add" => \E m \in k..Len(last.cbs) :
                                              last.cbs[m] = Call("on_add", zknode)

\* C32: when the first sync_children call of the path raised to its caller
\* out of the reconciliation, the call that retries it calls on_add for
\* every common child for which on_add had not completed
C32_RetryProcessesCommon ==
    [][( /\ last.op = "sync_children" /\ last.exc # NoExc /\ nsync = 1
         /\ eng.alive
         /\ ReconcileStep /\ last'.op = "sync_children" /\ last'.exc = NoExc )
       => \A n \in SeqSet(Classified.common) :
             OnAddNotCompleted(join_zookeeper_path(ZkPath, n))
               => CallsOf(last'.cbs, "on_add", join_zookeeper_path(ZkPath, n)) # {}
      ]_vars

\* the first call failed in on_add for the common child host1, after the
\* parent entered the processed-once set; the retry skips host1, whose stale
\* file stays
C32_CommonSkipped ==
    /\ last.op = "sync_children" /\ last.exc = NoExc /\ nsync = 2
    /\ nfaults = 1
    /\ eng.alive
    /\ ZkPath \in eng.processed_once
    /\ CallsOf(last.calls, "get_children", ZkPath) # {}
    /\ CallsOf(last.cbs, "on_add", Host1) = {}
    /\ CallsOf(last.cbs, "on_add", Host2) # {}
    /\ rnodes[Host1].exists /\ rnodes[Host1].data = "A"
    /\ MirrorOf(Host1) = File("B", 0, 420)

----------------------------------------------------------------------------
(* Claims on a path that does not exist remotely (SpecNoNode) *)

\* C33: a sync_children call that reaches its one-shot branch on a path
\* that does not exist remotely raises nothing; on_del is called once for
\* every file visible in the mirror directory, with the default on_del no
\* such file is left, and on_add is called for no child and nothing is
\* written
C33_NoNodeOneShot ==
    [][( /\ ~rparent
         /\ last'.op = "sync_children" /\ nsync' = nsync + 1
         /\ ~DoneExists )
       => /\ last'.exc = NoExc /\ eng'.alive
          /\ CallsOf(last'.calls, "get_children", ZkPath) # {}
          /\ \A n \in Children :
               LET zknode == join_zookeeper_path(ZkPath, n)
               IN /\ CallsOf(last'.cbs, "on_add", zknode) = {}
                  /\ Writes(last'.muts, fpath(zknode)) = {}
                  /\ Cardinality(CallsOf(last'.cbs, "on_del", zknode))
                       = (IF n \in LocalNames(eng, ZkPath) THEN 1 ELSE 0)
                  /\ ~MirrorOf(zknode)'.exists
          /\ LocalNames(eng', ZkPath) = {}
          /\ eng'.watches = {}
      ]_vars

\* both files of an earlier run removed, the path not existing remotely
C33_Witness ==
    /\ ~rparent
    /\ last.op = "sync_children" /\ last.exc = NoExc /\ nsync = 1
    /\ last.cbs = <<Call("on_del", Host1), Call("on_del", Host2)>>
    /\ last.muts = <<Mut("rm", fpath(Host1)), Mut("rm", fpath(Host2)),
                     Mut("touch", DoneFile(fpath(ZkPath)))>>
    /\ ~MirrorOf(Host1).exists /\ ~MirrorOf(Host2).exists

----------------------------------------------------------------------------
(* SpecInit: the init daemon from its blackout check to its end, one call   *)
(* of top per step, with the session, the presence node and the watchdogs   *)
(* changing under it                                                        *)

zksync_vars == <<rnodes, clock, queue, session, eng, last, nsync, nfaults, diff, wr, call, threads, cancelled, rparent>>

\* the presence node a start may find: none, the one of the session the
\* client resumed, the one of a session that is not over yet, one that is
\* not ephemeral
InitPresences ==
    {NoZnode, Znode("self", 0, "unseen"), Znode("self", 0, "seen"),
     Znode("other", 0, "unseen"), Znode("none", 0, "unseen")}

InitBlackouts == {NoZnode, Znode("none", 0, "admin")}

InitNode ==
    /\ rnodes = [p \in ChildPaths |-> NoNode]
    /\ clock = 0
    /\ queue = <<>>
    /\ session = "CONNECTED"
    /\ eng = EngineInit(EmptyFs)
    /\ last = EnvLog("init")
    /\ nsync = 0
    /\ nfaults = 0
    /\ diff = IdleDiff
    /\ wr = IdleWrite
    /\ call = NoCall
    /\ threads = NoThreads
    /\ cancelled = {}
    /\ rparent = TRUE
    /\ initd \in {NodeState(p, b, f, x) : p \in InitPresences, b \in InitBlackouts,
                                         f \in BOOLEAN, x \in BOOLEAN}

NodeStep(n) == initd' = n /\ UNCHANGED zksync_vars

\* top, lines 68-71 and 96-98
CheckBlackout ==
    /\ initd.pc = "check_blackout"
    /\ NodeStep([initd EXCEPT !.blacklisted = initd.blackout.exists,
                              !.pc = IF initd.blackout.exists THEN "shutdown"
                                                              ELSE "node_start"])

\* top, lines 73-74
NodeStart ==
    /\ initd.pc = "node_start"
    /\ NodeStep([node_start(initd) EXCEPT !.pc = "init_network"])

\* top, lines 77-79
InitNetwork ==
    /\ initd.pc = "init_network"
    /\ NodeStep([init_network(initd) EXCEPT !.pc = "main_loop"])

\* top, line 83: _main_loop, lines 225-242
MainLoopSetup ==
    /\ initd.pc = "main_loop"
    /\ NodeStep([main_loop_setup(initd) EXCEPT !.pc = "main_loop_wait"])

\* _main_loop, lines 244-254
MainLoopWait ==
    /\ initd.pc = "main_loop_wait"
    /\ NodeStep([initd EXCEPT !.down_reason = main_loop_turn(initd).down_reason,
                              !.pc = IF main_loop_turn(initd).left THEN "after_loop" ELSE @])

\* top, lines 85-94
Blackout ==
    /\ initd.pc = "after_loop"
    /\ NodeStep([top_blackout(initd) EXCEPT !.pc = "shutdown"])

\* top, line 103
EnsureDeleted ==
    /\ initd.pc = "shutdown"
    /\ NodeStep([Did(DeletePresence(initd), "zkutils.ensure_deleted")
                   EXCEPT !.pc = "remove_listener"])

\* top, line 104
RemoveListener ==
    /\ initd.pc = "remove_listener"
    /\ NodeStep([remove_listener(initd) EXCEPT !.pc = "stop"])

\* top, line 105
Stop ==
    /\ initd.pc = "stop"
    /\ NodeStep([client_stop(initd) EXCEPT !.pc = IF @ = "exited" THEN @ ELSE "close"])

\* top, line 106
Close ==
    /\ initd.pc = "close"
    /\ NodeStep([client_close(initd) EXCEPT !.pc = "cleanup_network"])

\* top, line 108
CleanupNetwork ==
    /\ initd.pc = "cleanup_network"
    /\ NodeStep([cleanup_network(initd) EXCEPT !.pc = "blackout_terminate"])

\* top, line 111
BlackoutTerminate ==
    /\ initd.pc = "blackout_terminate"
    /\ NodeStep([blackout_terminate(initd) EXCEPT !.pc = "finish"])

\* top, lines 113-118
Finish ==
    /\ initd.pc = "finish"
    /\ NodeStep(IF initd.exit_on_fail THEN sys_exit_code(initd, "fail")
                                      ELSE [initd EXCEPT !.pc = "sit"])

\* the daemon's program: the next call of top
TopStep ==
    \/ CheckBlackout
    \/ NodeStart
    \/ InitNetwork
    \/ MainLoopSetup
    \/ MainLoopWait
    \/ Blackout
    \/ EnsureDeleted
    \/ RemoveListener
    \/ Stop
    \/ Close
    \/ CleanupNetwork
    \/ BlackoutTerminate
    \/ Finish

NodeRuns == initd.pc \notin {"idle", "exited"}

\* the session expires: the client enters LOST and tells its listeners
NodeSessionLost ==
    /\ NodeRuns
    /\ initd.client = "started"
    /\ initd.kstate = "CONNECTED"
    /\ NodeStep(StateChange(SessionEnd(initd), "LOST"))

\* another client deletes the presence node
PresenceDeleted ==
    /\ NodeRuns
    /\ initd.presence.exists
    /\ NodeStep(DeletePresence(initd))

\* the master marks the node seen
PresenceSeen ==
    /\ NodeRuns
    /\ initd.presence.exists
    /\ initd.presence.data = "unseen"
    /\ NodeStep(Fire([initd EXCEPT !.presence.data = "seen"], "CHANGED"))

\* a watchdog of the node expires
WatchdogFails ==
    /\ NodeRuns
    /\ ~initd.watchdog_failed
    /\ NodeStep([initd EXCEPT !.watchdog_failed = TRUE])

\* the client's thread delivers the watch event of the presence node
DeliverPresence ==
    /\ NodeRuns
    /\ initd.client = "started"
    /\ initd.kstate = "CONNECTED"
    /\ initd.pending # "none"
    /\ NodeStep(PresenceWatchCall(initd, initd.pending))

NextNode ==
    \/ TopStep
    \/ NodeSessionLost
    \/ PresenceDeleted
    \/ PresenceSeen
    \/ WatchdogFails
    \/ DeliverPresence

\* top is straight-line code: its next call is made
SpecInit == InitNode /\ [][NextNode]_vars /\ WF_vars(TopStep)

----------------------------------------------------------------------------
(* The init daemon's claims *)

\* the place of the first call of that name in the daemon's log, 0 without one
Pos(log, what) ==
    IF \E i \in DOMAIN log : log[i] = what
      THEN CHOOSE i \in DOMAIN log : log[i] = what /\ \A j \in 1..(i - 1) : log[j] # what
      ELSE 0

\* the program made the first call, and made it before the second
Before(log, a, b) == Pos(log, a) > 0 /\ Pos(log, a) < Pos(log, b)

\* the shutdown phase is over: no presence node, no forwarding, no containers
ShutdownDone ==
    /\ ~initd.presence.exists
    /\ ~initd.forwarding
    /\ initd.containers = "terminated"

\* a stop or a close of the client found the session-loss listener removed
ListenerRemovedFirst ==
    /\ Pos(initd.log, "stop") > 0 => Before(initd.log, "remove_listener", "stop")
    /\ Pos(initd.log, "close") > 0 => Before(initd.log, "stop", "close")
    /\ initd.client # "started" => Listener \notin initd.listeners

\* forwarding is disabled after the presence node is deleted, the containers
\* are terminated after forwarding is disabled
ShutdownOrdered ==
    /\ Pos(initd.log, "cleanup_network") > 0
          => /\ Before(initd.log, "zkutils.ensure_deleted", "cleanup_network")
             /\ ~initd.presence.exists
    /\ Pos(initd.log, "blackout_terminate") > 0
          => /\ Before(initd.log, "cleanup_network", "blackout_terminate")
             /\ ~initd.forwarding

WroteBlackout == Pos(initd.log, "zkutils.ensure_exists") > 0

\* the daemon registered the node: server data merged, presence node put
Registered ==
    \/ Pos(initd.log, "zkutils.update") > 0
    \/ Pos(initd.log, "zkutils.put") > 0
    \/ initd.server.version > 0

\* where top is from its shutdown phase on
ShutdownPcs ==
    {"shutdown", "remove_listener", "stop", "close", "cleanup_network",
     "blackout_terminate", "finish", "sit"}

\* C35: the daemon writes the blackout node in one place, after a main loop
\* that a failed watchdog check ended, and only then: the loop returns a
\* reason iff it was left with the deleted-event not set and the watchdogs
\* failing, and the blackout node then holds that reason. The event is set by
\* a call of the presence watch with no data or with a DELETED event, and that
\* call ends the watch; a loop left on the event returns no reason and no
\* blackout node is written. A node found blacked out at startup goes from
\* the blackout test to the shutdown phase with nothing registered, no presence node
\* created and no blackout node written.
C35_BlackoutIffWatchdog ==
    /\ [][((Pos(initd'.log, "zkutils.ensure_exists") > 0) /\ ~WroteBlackout)
             <=> (initd.pc = "after_loop" /\ initd'.pc = "shutdown"
                  /\ initd.down_reason # "None")]_vars
    /\ [][initd.pc = "main_loop_wait" /\ initd'.pc = "after_loop"
             => IF initd.node_deleted_event
                  THEN initd'.down_reason = "None"
                  ELSE initd.watchdog_failed /\ initd'.down_reason = "watchdogs failed"]_vars
    /\ [][~initd.node_deleted_event /\ initd'.node_deleted_event
             => /\ ~initd.presence.exists \/ initd.pending = "DELETED"
                /\ initd'.watch = "stopped"]_vars
    /\ [][initd.pc = "check_blackout" /\ initd.blackout.exists
             => initd'.pc \in {"check_blackout", "shutdown", "exited"}]_vars
    /\ [](WroteBlackout => /\ initd.blackout.exists
                           /\ initd.blackout.data = "watchdogs failed"
                           /\ initd.down_reason = "watchdogs failed")
    /\ [](initd.pc \in ShutdownPcs /\ initd.down_reason = "None" => ~WroteBlackout)
    /\ [](initd.node_deleted_event => initd.watch = "stopped")
    /\ [](initd.blacklisted => /\ ~Registered
                               /\ initd.zxid = 0
                               /\ ~WroteBlackout
                               /\ initd.pc \in ShutdownPcs \cup {"exited"})
    /\ (initd.pc = "after_loop" /\ initd.down_reason # "None")
          ~> (WroteBlackout \/ initd.exit = "lost")

\* C35 happens: a failed watchdog check ended the loop and the node is
\* blacked out with that reason
C35_Witness ==
    /\ initd.pc = "sit"
    /\ ~initd.blacklisted
    /\ WroteBlackout
    /\ initd.blackout.data = "watchdogs failed"

\* the loop was ended by the deletion of the presence node, with a watchdog
\* failing as well
C35_EndedByDelete ==
    /\ initd.pc = "sit"
    /\ initd.node_deleted_event
    /\ initd.watchdog_failed
    /\ ~WroteBlackout

\* a node blacked out at startup went through the shutdown phase
C35_BlackedOutAtStart ==
    /\ initd.pc = "sit"
    /\ initd.blacklisted
    /\ ShutdownDone

\* the step is top's call of _node_start
NodeStartStep == initd.pc = "node_start" /\ initd'.pc = "init_network"

\* the calls the step added to the daemon's log
NewCalls == SubSeq(initd'.log, Len(initd.log) + 1, Len(initd'.log))

\* C36: _node_start, by the presence node it finds. Owned by the current
\* session: nothing is called, the presence node and the server data are as
\* they were. Owned by another session, or by none: the node is deleted, the
\* server data merged and a new presence node created. Absent: the server
\* data is merged and the presence node created. In every case the presence
\* node exists on return and is owned by the current session, which only an
\* ephemeral node is.
C36_NodeStartSession ==
    [][NodeStartStep =>
         /\ initd.presence.exists /\ initd.presence.owner = "self"
               => /\ NewCalls = <<>>
                  /\ initd'.presence = initd.presence
                  /\ initd'.server = initd.server
         /\ initd.presence.exists /\ initd.presence.owner # "self"
               => /\ NewCalls = <<"zkclient.delete", "zkutils.update", "zkutils.put",
                                  "tm_env.initialize">>
                  /\ initd'.presence.czxid > initd.presence.czxid
                  /\ initd'.server.version = initd.server.version + 1
         /\ ~initd.presence.exists
               => /\ NewCalls = <<"zkutils.update", "zkutils.put", "tm_env.initialize">>
                  /\ initd'.presence.czxid > 0
                  /\ initd'.server.version = initd.server.version + 1
         /\ initd'.presence.exists
         /\ initd'.presence.owner = "self"]_vars

\* C36 happens: _node_start found the presence node of another session and
\* returned with a new one of its own
C36_Witness ==
    /\ initd.pc = "init_network"
    /\ Pos(initd.log, "zkclient.delete") = 1
    /\ initd.presence.exists
    /\ initd.presence.owner = "self"
    /\ initd.presence.czxid = 1

\* _node_start found the node of the session the client resumed
C36_Resumed ==
    /\ initd.pc = "init_network"
    /\ initd.log = <<>>
    /\ initd.presence.owner = "self"
    /\ initd.presence.data = "seen"

\* _node_start found no presence node
C36_Created ==
    /\ initd.pc = "init_network"
    /\ initd.log = <<"zkutils.update", "zkutils.put", "tm_env.initialize">>
    /\ initd.presence.owner = "self"

============================================================================
